---- MODULE Spec2Model ----
(***************************************************************************)
(* Vault reference resolution and retrieval of shar3: the GET /raw handler *)
(* (src/app/raw/route.ts) driving fetchAndDecryptVaultFile                  *)
(* (src/lib/jackalVault.ts) over the RPC client postAbciQuery               *)
(* (src/unnamed/part_002) and the storage providers.                        *)
(*                                                                         *)
(* Text is a sequence of one-character strings, bytes are 0..255, a JSON   *)
(* value is a record [t, s, kids] (t the type, s the characters of a        *)
(* string, kids the ordered members [k, v] of an object or array).          *)
(***************************************************************************)
EXTENDS Integers, Sequences, FiniteSets, TLC

VARIABLES
    pc,            \* where the GET /raw handler stands (which await it is at)
    request,       \* the decoded "u" parameter of the request (NoParam if missing)
    parts,         \* parseVaultUrl's result {vaultAddress, fileId, key}
    metadata,      \* fetchFileMetadata's result
    findResult,    \* what postAbciQuery returned for the FindFile query
    cid,           \* the CID fetchEncryptedChunks downloads
    cidSource,     \* which strategy set cid
    hostIdx,       \* provider being requested: 1 = primary, 2.. = fallbackHosts
    attempts,      \* const attempts: DownloadAttempt[]
    encryptedData, \* what fetchEncryptedChunks returned
    decryptedData, \* what decryptFileData returned
    thrown,        \* the error fetchAndDecryptVaultFile threw to the handler
    httpResponse,  \* the NextResponse the handler returned
    rpcCalls,      \* network: the ABCI query paths POSTed, in order
    requests,      \* network: the GET requests issued to providers, in order
    replies,       \* network: how each GET of requests ended, in order
    input,         \* the argument of a function that is run by itself
    output         \* what that function returned

vars == << pc, request, parts, metadata, findResult, cid, cidSource, hostIdx,
           attempts, encryptedData, decryptedData, thrown, httpResponse,
           rpcCalls, requests, replies, input, output >>

----------------------------------------------------------------------------
(* Bounds of the model *)

\* longest body a provider serves, in bytes
MaxBodyLen == 1

\* longest owner and file id segment of a share URL given to parseVaultUrl alone
MaxSegLen == 2

\* longest text of the k parameter of such a URL
MaxKeyLen == 3

----------------------------------------------------------------------------
(* Text, bytes, hex, base64 *)

Rep(s, n) == [i \in 1..(n * Len(s)) |-> s[((i - 1) % Len(s)) + 1]]

HexDigits == << "0","1","2","3","4","5","6","7","8","9","a","b","c","d","e","f" >>

UpperHex == {"A","B","C","D","E","F"}

\* the character class [0-9a-f] under the /i flag
IsHexChar(c) == (\E i \in 1..16 : HexDigits[i] = c) \/ c \in UpperHex

\* /^[0-9a-f]+$/i
IsHexText(s) == Len(s) >= 1 /\ \A i \in 1..Len(s) : IsHexChar(s[i])

\* /^[0-9a-f]{64}$/i
CidHexLen == 64

IsHex64(s) == Len(s) = CidHexLen /\ IsHexText(s)

\* Buffer.toString('hex')
ToHex(bytes) ==
    [i \in 1..(2 * Len(bytes)) |->
        IF i % 2 = 1 THEN HexDigits[(bytes[(i + 1) \div 2] \div 16) + 1]
                     ELSE HexDigits[(bytes[i \div 2] % 16) + 1]]

\* Buffer.slice(from, to) with 0-based from (inclusive) and to (exclusive)
Slice(bytes, from, to) ==
    LET lo == IF from < 0 THEN 0 ELSE from
        hi == IF to > Len(bytes) THEN Len(bytes) ELSE to
    IN  IF hi <= lo THEN << >> ELSE [i \in 1..(hi - lo) |-> bytes[lo + i]]

\* One byte decoded as UTF-8 text: an ASCII hex digit or letter keeps its
\* character; every other byte yields a character outside [0-9a-fA-F]
\* (a control or punctuation character, or U+FFFD), written "?".
Utf8Char(b) ==
    IF b >= 48 /\ b <= 57 THEN HexDigits[b - 47]
    ELSE IF b >= 97 /\ b <= 102 THEN HexDigits[b - 86]
    ELSE IF b = 65 THEN "A" ELSE IF b = 66 THEN "B" ELSE IF b = 67 THEN "C"
    ELSE IF b = 68 THEN "D" ELSE IF b = 69 THEN "E" ELSE IF b = 70 THEN "F"
    ELSE "?"

\* Buffer.toString('utf8')
Utf8(bytes) == [i \in 1..Len(bytes) |-> Utf8Char(bytes[i])]

Base64Alphabet ==
    << "A","B","C","D","E","F","G","H","I","J","K","L","M","N","O","P",
       "Q","R","S","T","U","V","W","X","Y","Z","a","b","c","d","e","f",
       "g","h","i","j","k","l","m","n","o","p","q","r","s","t","u","v",
       "w","x","y","z","0","1","2","3","4","5","6","7","8","9","+","/" >>

Base64Value(c) == (CHOOSE i \in 1..64 : Base64Alphabet[i] = c) - 1

\* Buffer.from(text, 'base64'): 4 characters carry 3 bytes, "=" pads
Base64Decode(text) ==
    LET core == SelectSeq(text, LAMBDA c : c # "=")
        n    == (Len(core) * 6) \div 8
        v(i) == Base64Value(core[i])
        byte(j) ==   \* j counts from 0
            LET g == 4 * (j \div 3)
            IN  IF j % 3 = 0 THEN (v(g + 1) * 4 + (v(g + 2) \div 16)) % 256
                ELSE IF j % 3 = 1 THEN ((v(g + 2) % 16) * 16 + (v(g + 3) \div 4)) % 256
                ELSE ((v(g + 3) % 4) * 64 + v(g + 4)) % 256
    IN  [i \in 1..n |-> byte(i - 1)]

----------------------------------------------------------------------------
(* JSON values *)

Undefined == [t |-> "undefined", s |-> << >>, kids |-> << >>]

JNull == [t |-> "null", s |-> << >>, kids |-> << >>]

JNum == [t |-> "num", s |-> << >>, kids |-> << >>]

JStr(text) == [t |-> "str", s |-> text, kids |-> << >>]

JObj(members) == [t |-> "obj", s |-> << >>, kids |-> members]

\* an array's members carry their index as key, as Object.entries gives them
JArr(items) ==
    [t |-> "arr", s |-> << >>,
     kids |-> [i \in 1..Len(items) |-> [k |-> << HexDigits[i] >>, v |-> items[i]]]]

\* obj?.key
Member(obj, key) ==
    IF obj.t = "obj" /\ \E i \in 1..Len(obj.kids) : obj.kids[i].k = key
    THEN obj.kids[CHOOSE i \in 1..Len(obj.kids) : obj.kids[i].k = key].v
    ELSE Undefined

\* !v is false
Truthy(v) == v.t \in {"obj", "arr", "num"} \/ (v.t = "str" /\ Len(v.s) > 0)

K_result == << "r","e","s","u","l","t" >>

K_response == << "r","e","s","p","o","n","s","e" >>

K_value == << "v","a","l","u","e" >>

K_key == << "k","e","y" >>

----------------------------------------------------------------------------
(* collectHexCandidates *)

\* nextPath.join('.')
RECURSIVE JoinDots(_)
JoinDots(path) ==
    IF Len(path) = 0 THEN << >>
    ELSE IF Len(path) = 1 THEN path[1]
    ELSE path[1] \o << "." >> \o JoinDots(Tail(path))

\* `${nextPath.join('.')} = ${val}`
CandidateText(path, val) == JoinDots(path) \o << " ", "=", " " >> \o val

RECURSIVE collectHexCandidates(_, _, _), CollectMembers(_, _, _, _), CollectItems(_, _, _, _)

\* the forEach over an array value: each item is visited with its index on the path
CollectItems(items, i, path, out) ==
    IF i > Len(items) THEN out
    ELSE CollectItems(items, i + 1, path,
            collectHexCandidates(items[i].v, Append(path, items[i].k), out))

\* the for loop over Object.entries(obj), from member i on
CollectMembers(members, i, path, out) ==
    IF i > Len(members) THEN out
    ELSE
        LET val      == members[i].v
            nextPath == Append(path, members[i].k)
            out1 ==
                IF val.t = "str" /\ IsHex64(val.s)
                THEN Append(out, CandidateText(nextPath, val.s))
                ELSE IF val.t = "arr" THEN CollectItems(val.kids, 1, nextPath, out)
                ELSE IF val.t \in {"obj", "null"} THEN collectHexCandidates(val, nextPath, out)
                ELSE out
        IN  CollectMembers(members, i + 1, path, out1)

collectHexCandidates(obj, path, out) ==
    IF obj.t \notin {"obj", "arr"} THEN out
    ELSE CollectMembers(obj.kids, 1, path, out)

----------------------------------------------------------------------------
(* decodeFindFileValue *)

\* sizes of the scan
HashLen == 32

MinHexStrLen == 32

MaxPrefixLen == 100

\* response?.result?.response?.value
FindValue(response) == Member(Member(Member(response, K_result), K_response), K_value)

\* the offsets 0..upTo as a sequence
Offsets(upTo) == IF upTo < 0 THEN << >> ELSE [i \in 1..(upTo + 1) |-> i - 1]

\* the length-prefixed runs of hex text
potentialHexStrings(raw) ==
    LET str(i) == Utf8(Slice(raw, i + 1, i + 1 + raw[i + 1]))
        hit(i) == /\ raw[i + 1] > 0
                  /\ raw[i + 1] < MaxPrefixLen
                  /\ i + 1 + raw[i + 1] <= Len(raw)
                  /\ IsHexText(str(i))
                  /\ Len(str(i)) >= MinHexStrLen
        offs   == SelectSeq(Offsets(Len(raw) - 2), hit)
    IN  [n \in 1..Len(offs) |->
            [offset |-> offs[n], length |-> raw[offs[n] + 1], value |-> str(offs[n])]]

\* the 32-byte windows, each rendered as hex
possibleHashes(raw) ==
    LET hash(i) == ToHex(Slice(raw, i, i + HashLen))
        offs    == SelectSeq(Offsets(Len(raw) - HashLen), LAMBDA i : IsHex64(hash(i)))
    IN  [n \in 1..Len(offs) |-> [offset |-> offs[n], hash |-> hash(offs[n])]]

\* throws (ok = FALSE) when the value is missing, or when Buffer.from is given
\* a value that is not text
decodeFindFileValue(response) ==
    LET valueB64 == FindValue(response)
        raw      == Base64Decode(valueB64.s)
        threw(cause) == [ok |-> FALSE, error |-> cause,
                         potentialHexStrings |-> << >>, possibleHashes |-> << >>]
    IN  IF ~Truthy(valueB64) THEN threw("FindFile response missing value")
        ELSE IF valueB64.t # "str"
        THEN threw("The first argument must be of type string")
        ELSE [ok |-> TRUE, error |-> "",
              potentialHexStrings |-> potentialHexStrings(raw),
              possibleHashes |-> possibleHashes(raw)]

----------------------------------------------------------------------------
(* Error messages: a message is a sequence of parts, each a literal of the  *)
(* source, a number, characters, a text supplied by the network, or the     *)
(* JSON text of the attempt log.                                            *)

Lit(s) == [t |-> "lit", s |-> s, n |-> 0, cs |-> << >>, att |-> << >>]

Num(n) == [t |-> "num", s |-> "", n |-> n, cs |-> << >>, att |-> << >>]

Chars(cs) == [t |-> "chars", s |-> "", n |-> 0, cs |-> cs, att |-> << >>]

\* a property name of a JSON object
Key(s) == [t |-> "key", s |-> s, n |-> 0, cs |-> << >>, att |-> << >>]

\* the JSON text of an array of objects, one sequence of parts per object
Json(att) == [t |-> "json", s |-> "", n |-> 0, cs |-> << >>, att |-> att]

\* the texts the handler looks for in an error message
Needles == {"not found", "404", "timeout", "network", "decrypt", "key"}

\* which needles a literal or a network text holds (no literal of the
\* source that reaches the handler holds one)
NeedlesOf(s) ==
    CASE s = "file not found"   -> {"not found"}
      [] s = "upstream timeout" -> {"timeout"}
      [] s = "Failed to decrypt file: " -> {"decrypt"}
      [] OTHER -> {}

Has404(cs) ==
    \E i \in 1..(Len(cs) - 2) : cs[i] = "4" /\ cs[i + 1] = "0" /\ cs[i + 2] = "4"

RECURSIVE Includes(_, _)
\* errorMessage.includes(needle)
Includes(msg, needle) ==
    \E i \in 1..Len(msg) :
        LET p == msg[i]
        IN  \/ p.t = "lit" /\ needle \in NeedlesOf(p.s)
            \/ p.t = "num" /\ needle = "404" /\ p.n = 404
            \/ p.t = "chars" /\ needle = "404" /\ Has404(p.cs)
            \/ p.t = "json" /\ \E j \in 1..Len(p.att) : Includes(p.att[j], needle)

----------------------------------------------------------------------------
(* postAbciQuery *)

K_error == << "e","r","r","o","r" >>

\* an answer of the RPC endpoint: fetch rejects, or resolves with a status
\* and a body that parses as JSON (envelope) or does not
RpcReply(rejects, status, parses, envelope) ==
    [rejects |-> rejects, status |-> status, parses |-> parses, envelope |-> envelope]

Returned(v) == [ok |-> TRUE, result |-> v, error |-> << >>]

Threw(msg) == [ok |-> FALSE, result |-> Undefined, error |-> msg]

IsOkStatus(status) == status >= 200 /\ status <= 299

postAbciQuery(reply) ==
    LET wrap(cause) == Threw(<< Lit("Failed to query Jackal RPC: ") >> \o cause)
    IN  IF reply.rejects THEN wrap(<< Lit("fetch failed") >>)
        ELSE IF ~IsOkStatus(reply.status)
        THEN wrap(<< Lit("RPC request failed: "), Num(reply.status) >>)
        ELSE IF ~reply.parses THEN wrap(<< Lit("Unexpected token < in JSON") >>)
        ELSE IF reply.envelope.t \in {"null", "undefined"}
        THEN wrap(<< Lit("Cannot read properties of null") >>)
        ELSE IF Truthy(Member(reply.envelope, K_error))
        THEN wrap(<< Lit("RPC error: "), Lit("{...}") >>)
        ELSE Returned(Member(reply.envelope, K_result))

----------------------------------------------------------------------------
(* The share URL, new URL(...) and parseVaultUrl *)

\* the "u" parameter is missing
NoParam ==
    [absent |-> TRUE, decodes |-> TRUE, absolute |-> FALSE, host |-> "",
     path |-> << >>, query |-> << >>]

\* a "u" parameter: whether decodeURIComponent accepts it, and the decoded
\* text: whether it starts with a scheme and a host, the host, the text of
\* its path (from the first "/" on) and of its query (from "?" on)
ShareUrl(decodes, absolute, host, path, query) ==
    [absent |-> FALSE, decodes |-> decodes, absolute |-> absolute, host |-> host,
     path |-> path, query |-> query]

VaultHost == "vault.jackalprotocol.com"

VaultHostText ==
    << "v","a","u","l","t",".","j","a","c","k","a","l","p","r","o","t","o","c","o","l",
       ".","c","o","m" >>

\* text.includes(needle)
IncludesText(text, needle) ==
    \E i \in 1..(Len(text) - Len(needle) + 1) :
        SubSeq(text, i, i + Len(needle) - 1) = needle

\* vaultUrl.includes('vault.jackalprotocol.com')
IncludesVaultHost(url) ==
    \/ url.host = VaultHost
    \/ IncludesText(url.path \o url.query, VaultHostText)

\* where sep stands first in text (0: nowhere)
IndexOf(text, sep) ==
    IF \E i \in 1..Len(text) : text[i] = sep
    THEN CHOOSE i \in 1..Len(text) : text[i] = sep /\ \A j \in 1..(i - 1) : text[j] # sep
    ELSE 0

RECURSIVE Split(_, _)
\* text.split(sep)
Split(text, sep) ==
    LET i == IndexOf(text, sep)
    IN  IF i = 0 THEN << text >>
        ELSE << SubSeq(text, 1, i - 1) >> \o Split(SubSeq(text, i + 1, Len(text)), sep)

RECURSIVE Join(_, _)
\* segments.join(sep)
Join(segments, sep) ==
    IF Len(segments) = 0 THEN << >>
    ELSE IF Len(segments) = 1 THEN segments[1]
    ELSE segments[1] \o << sep >> \o Join(Tail(segments), sep)

RECURSIVE PathSegments(_, _, _)
\* the URL parser's path state: "." is dropped, ".." drops the segment before
\* it, and either leaves an empty segment when it ends the path
PathSegments(segs, i, out) ==
    IF i > Len(segs) THEN out
    ELSE LET s      == segs[i]
             atEnd  == IF i = Len(segs) THEN << << >> >> ELSE << >>
             popped == IF Len(out) > 0 THEN SubSeq(out, 1, Len(out) - 1) ELSE out
         IN  IF s = << ".", "." >> THEN PathSegments(segs, i + 1, popped \o atEnd)
             ELSE IF s = << "." >> THEN PathSegments(segs, i + 1, out \o atEnd)
             ELSE PathSegments(segs, i + 1, Append(out, s))

\* url.pathname
Pathname(path) ==
    IF Len(path) = 0 THEN << "/" >>
    ELSE << "/" >> \o Join(PathSegments(Split(Tail(path), "/"), 1, << >>), "/")

\* the value of a hex digit
HexValue(c) ==
    IF \E i \in 1..16 : HexDigits[i] = c
    THEN (CHOOSE i \in 1..16 : HexDigits[i] = c) - 1
    ELSE CASE c = "A" -> 10 [] c = "B" -> 11 [] c = "C" -> 12
           [] c = "D" -> 13 [] c = "E" -> 14 [] c = "F" -> 15

\* the character a percent-escape of the query stands for
CharOfByte(b) ==
    IF b = 32 THEN " " ELSE IF b = 37 THEN "%" ELSE IF b = 43 THEN "+"
    ELSE IF b = 75 THEN "K" ELSE Utf8Char(b)

RECURSIVE PercentDecode(_)
PercentDecode(text) ==
    IF Len(text) = 0 THEN << >>
    ELSE IF text[1] = "%" /\ Len(text) >= 3 /\ IsHexChar(text[2]) /\ IsHexChar(text[3])
    THEN << CharOfByte(16 * HexValue(text[2]) + HexValue(text[3])) >>
         \o PercentDecode(SubSeq(text, 4, Len(text)))
    ELSE << text[1] >> \o PercentDecode(Tail(text))

\* application/x-www-form-urlencoded: "+" is a space, then the escapes
FormDecode(text) ==
    PercentDecode([i \in 1..Len(text) |-> IF text[i] = "+" THEN " " ELSE text[i]])

\* url.searchParams.get(name): the decoded value of the first parameter of
\* that name, or null (found = FALSE)
SearchParamsGet(query, name) ==
    LET q      == IF Len(query) > 0 /\ query[1] = "?" THEN Tail(query) ELSE query
        pieces == SelectSeq(Split(q, "&"), LAMBDA p : Len(p) > 0)
        eq(p)  == IndexOf(p, "=")
        nm(p)  == FormDecode(IF eq(p) = 0 THEN p ELSE SubSeq(p, 1, eq(p) - 1))
        val(p) == FormDecode(IF eq(p) = 0 THEN << >> ELSE SubSeq(p, eq(p) + 1, Len(p)))
        hits   == SelectSeq(pieces, LAMBDA p : nm(p) = name)
    IN  IF Len(hits) = 0 THEN [found |-> FALSE, value |-> << >>]
        ELSE [found |-> TRUE, value |-> val(hits[1])]

\* a faulty variant of parseVaultUrl: the owner segment is read for the file id
parseVaultUrlSameSegment(vaultUrl) ==
    LET wrap(cause) ==
            [ok |-> FALSE, vaultAddress |-> << >>, fileId |-> << >>, key |-> << >>,
             error |-> << Lit("Failed to parse vault URL: "), Lit(cause) >>]
        pathParts == Split(Pathname(vaultUrl.path), "/")
        key       == SearchParamsGet(vaultUrl.query, << "k" >>)
    IN  IF ~vaultUrl.absolute THEN wrap("Invalid URL")
        ELSE IF Len(pathParts) < 4 \/ pathParts[2] # << "v" >>
        THEN wrap("Invalid vault URL format")
        ELSE IF pathParts[3] = << >> \/ pathParts[4] = << >> \/ ~key.found \/ key.value = << >>
        THEN wrap("Missing required URL components")
        ELSE [ok |-> TRUE, vaultAddress |-> pathParts[3], fileId |-> pathParts[3],
              key |-> key.value, error |-> << >>]

\* a faulty variant of parseVaultUrl: the k parameter is not checked
parseVaultUrlKeyUnchecked(vaultUrl) ==
    LET wrap(cause) ==
            [ok |-> FALSE, vaultAddress |-> << >>, fileId |-> << >>, key |-> << >>,
             error |-> << Lit("Failed to parse vault URL: "), Lit(cause) >>]
        pathParts == Split(Pathname(vaultUrl.path), "/")
        key       == SearchParamsGet(vaultUrl.query, << "k" >>)
    IN  IF ~vaultUrl.absolute THEN wrap("Invalid URL")
        ELSE IF Len(pathParts) < 4 \/ pathParts[2] # << "v" >>
        THEN wrap("Invalid vault URL format")
        ELSE IF pathParts[3] = << >> \/ pathParts[4] = << >>
        THEN wrap("Missing required URL components")
        ELSE [ok |-> TRUE, vaultAddress |-> pathParts[3], fileId |-> pathParts[4],
              key |-> key.value, error |-> << >>]

parseVaultUrl(vaultUrl) ==
    LET wrap(cause) ==
            [ok |-> FALSE, vaultAddress |-> << >>, fileId |-> << >>, key |-> << >>,
             error |-> << Lit("Failed to parse vault URL: "), Lit(cause) >>]
        pathParts == Split(Pathname(vaultUrl.path), "/")
        key       == SearchParamsGet(vaultUrl.query, << "k" >>)
    IN  IF ~vaultUrl.absolute THEN wrap("Invalid URL")
        ELSE IF Len(pathParts) < 4 \/ pathParts[2] # << "v" >>
        THEN wrap("Invalid vault URL format")
        ELSE IF pathParts[3] = << >> \/ pathParts[4] = << >> \/ ~key.found \/ key.value = << >>
        THEN wrap("Missing required URL components")
        ELSE [ok |-> TRUE, vaultAddress |-> pathParts[3], fileId |-> pathParts[4],
              key |-> key.value, error |-> << >>]

----------------------------------------------------------------------------
(* Choice of the CID in fetchEncryptedChunks *)

\* createHash('sha256').update(fileId).digest('hex'), for the fileIds of the model
Sha256Hex(fileId) ==
    CASE fileId = << "I","D","1","2","3" >> ->
           << "b","1","d","7","5","5","1","5","9","3","5","2","a","e","2","b",
              "3","a","d","6","c","f","7","4","5","8","a","e","0","5","a","e",
              "3","5","2","0","b","b","4","c","a","f","2","a","0","8","1","3",
              "a","4","e","4","9","9","6","8","2","e","d","b","f","8","2","a" >>
      [] fileId = << "I","D","9" >> ->
           << "b","9","4","1","6","2","7","0","0","6","3","8","3","8","e","6",
              "0","b","9","5","2","1","9","3","b","7","5","b","3","8","a","d",
              "7","0","5","3","d","0","7","4","1","0","e","f","3","1","b","8",
              "8","e","5","f","d","9","6","5","e","1","3","f","8","b","3","1" >>

\* the offsets at which text holds 64 hex characters in a row
Hex64Runs(text) ==
    { i \in 1..(Len(text) - CidHexLen + 1) :
        \A j \in 0..(CidHexLen - 1) : IsHexChar(text[i + j]) }

\* firstCandidate.match(/([0-9a-f]{64})/i)[1]: the leftmost run
MatchHex64(text) ==
    LET i == CHOOSE m \in Hex64Runs(text) : \A o \in Hex64Runs(text) : m <= o
    IN  [j \in 1..CidHexLen |-> text[i + j - 1]]

\* Strategies 1, 2, 3 and the fallback, in the order of the source
ChooseCid(decoded, candidates, fileId) ==
    LET full == SelectSeq(decoded.potentialHexStrings, LAMBDA h : Len(h.value) = CidHexLen)
    IN  IF Len(full) > 0
        THEN [cid |-> full[1].value, source |-> "potentialHexStrings"]
        ELSE IF Len(decoded.possibleHashes) > 0
        THEN [cid |-> decoded.possibleHashes[1].hash, source |-> "possibleHashes"]
        ELSE IF Len(candidates) > 0 /\ Hex64Runs(candidates[1]) # {}
        THEN [cid |-> MatchHex64(candidates[1]), source |-> "candidates"]
        ELSE [cid |-> Sha256Hex(fileId), source |-> "sha256"]

----------------------------------------------------------------------------
(* Providers and the attempt log *)

PRIMARY_STORAGE_HOST == "jkstorage4.squirrellogic.com"

fallbackHosts ==
    << "pod-04.jackalstorage.online",
       "pod-01.jackalstorage.online",
       "m4.jkldrive.com",
       "jackal-storage1.badgerbite.io",
       "jsn4.pegasusdev.xyz" >>

\* the order in which fetchEncryptedChunks contacts the providers
Providers == << PRIMARY_STORAGE_HOST >> \o fallbackHosts

NumProviders == Len(Providers)

\* `https://${host}/download/${cid}`
DownloadUrl(host, c) == [host |-> host, cid |-> c]

\* a DownloadAttempt: status is {} or {n}, error is << >> (absent) or a message
DownloadAttempt(url, status, error) == [url |-> url, status |-> status, error |-> error]

\* a faulty variant of Push: attempts.unshift(entry)
PushFront(log, entry) == << entry >> \o log

\* attempts.push(entry)
Push(log, entry) == Append(log, entry)

\* one object of JSON.stringify(attempts, null, 2): absent fields are left out
JsonAttempt(a) ==
    << Key("url"), Lit("https://"), Lit(a.url.host), Lit("/download/"), Chars(a.url.cid) >>
    \o (IF a.status = {} THEN << >>
        ELSE << Key("status"), Num(CHOOSE n \in a.status : TRUE) >>)
    \o (IF a.error = << >> THEN << >> ELSE << Key("error") >> \o a.error)

JsonStringify(log) == Json([i \in 1..Len(log) |-> JsonAttempt(log[i])])

\* a faulty variant of ExhaustedError: only the last attempt is reported
ExhaustedErrorLastOnly(log) ==
    << Lit("Failed to fetch encrypted chunks: "),
       Lit("Failed to download from any storage provider. Attempts: "),
       Json(<< JsonAttempt(log[Len(log)]) >>) >>

\* lines 384-391: the error fetchEncryptedChunks throws when no provider served the CID
ExhaustedError(log) ==
    << Lit("Failed to fetch encrypted chunks: "),
       Lit("Failed to download from any storage provider. Attempts: "),
       JsonStringify(log) >>

\* lines 450-453 of fetchAndDecryptVaultFile: the error is thrown on as it is
Rethrow(error) == error

----------------------------------------------------------------------------
(* decryptFileData and the responses of GET /raw *)

\* lines 398-419: the data is returned as received, no error is raised
decryptFileData(data, key, meta) == data

TextResponse(status, text) ==
    [status |-> status, contentType |-> "text/plain", text |-> text, body |-> << >>]

\* lines 39-47
FileResponse(mimeType, data) ==
    [status |-> 200, contentType |-> mimeType, text |-> "", body |-> data]

NoResponse == [status |-> 0, contentType |-> "", text |-> "", body |-> << >>]

\* lines 51-83: the handler's catch
ErrorResponse(msg) ==
    IF Includes(msg, "not found") \/ Includes(msg, "404")
    THEN TextResponse(404, "File not found or cannot be decrypted")
    ELSE IF Includes(msg, "timeout") \/ Includes(msg, "network")
    THEN TextResponse(502, "Upstream service unavailable")
    ELSE IF Includes(msg, "decrypt") \/ Includes(msg, "key")
    THEN TextResponse(422, "Decryption failed - invalid key or corrupted file")
    ELSE TextResponse(500, "Internal server error during file processing")

----------------------------------------------------------------------------
(* What the network may answer *)

B64_short == << "A","Q","I","D" >>

\* 32 bytes 0x11
B64_raw32 == Rep(<< "E","R" >>, 21) \o << "E","=" >>

\* 0x0a, 0x40, then the 64 characters "bb...b"
B64_prefixed64 == << "C","k","B","i" >> \o Rep(<< "Y","m","J","i" >>, 21)

\* 0x20, then the 32 characters "cc...c"
B64_prefixed32 == << "I","G","N","j" >> \o Rep(<< "Y","2","N","j" >>, 10)

Hex_aa == Rep(<< "a" >>, CidHexLen)

\* { response: { value, ...more } }: what abci_query carries in "result"
AbciResult(valueB64, more) ==
    JObj(<< [k |-> K_response,
             v |-> JObj(<< [k |-> K_value, v |-> JStr(valueB64)] >> \o more)] >>)

\* the same under a further "result" member, where decodeFindFileValue looks
Nested(result) == JObj(<< [k |-> K_result, v |-> result] >>)

Envelope(result) == JObj(<< [k |-> K_result, v |-> result] >>)

ErrorEnvelope == JObj(<< [k |-> K_error, v |-> JObj(<< >>)] >>)

WithKey == << [k |-> K_key, v |-> JStr(Hex_aa)] >>

FindResults ==
    { AbciResult(B64_raw32, << >>),
      Nested(AbciResult(<< >>, << >>)),
      Nested(AbciResult(B64_short, << >>)),
      Nested(AbciResult(B64_prefixed64, << >>)),
      Nested(AbciResult(B64_prefixed32, << >>)),
      Nested(AbciResult(B64_short, WithKey)),
      Nested(AbciResult(B64_raw32, WithKey)) }

FailedRpcReplies ==
    { RpcReply(TRUE, 200, FALSE, Undefined),
      RpcReply(FALSE, 500, FALSE, Undefined),
      RpcReply(FALSE, 200, FALSE, Undefined),
      RpcReply(FALSE, 200, TRUE, ErrorEnvelope) }

\* the answers to the File query: the failures, and a metadata blob that
\* holds the hex text of 32 bytes 0xaa
FileReplies == FailedRpcReplies \cup { RpcReply(FALSE, 200, TRUE, Envelope(AbciResult(B64_short, WithKey))) }

FindReplies == FailedRpcReplies \cup { RpcReply(FALSE, 200, TRUE, Envelope(r)) : r \in FindResults }

SampleBytes == {255}

\* the bodies a provider may serve with a 2xx status
Bodies == UNION { [1..n -> SampleBytes] : n \in 0..MaxBodyLen }

\* the non-2xx answers of a provider: status and body text
NonOkReplies == { [status |-> 404, text |-> ""], [status |-> 500, text |-> "upstream timeout"] }

\* /v/owner1/ID123
Path_share == << "/","v","/","o","w","n","e","r","1","/","I","D","1","2","3" >>

\* /v/owner1
Path_short == SubSeq(Path_share, 1, 9)

\* ?k=KEY1
Query_key == << "?","k","=","K","E","Y","1" >>

Requests ==
    { NoParam,
      ShareUrl(FALSE, FALSE, "", << >>, << >>),
      ShareUrl(TRUE, TRUE, "example.com", Path_share, Query_key),
      ShareUrl(TRUE, TRUE, VaultHost, Path_short, Query_key),
      ShareUrl(TRUE, TRUE, VaultHost, Path_share, << >>),
      ShareUrl(TRUE, TRUE, VaultHost, Path_share, Query_key) }

----------------------------------------------------------------------------
(* The GET /raw handler, one action per continuation *)

NoParts ==
    [ok |-> FALSE, vaultAddress |-> << >>, fileId |-> << >>, key |-> << >>, error |-> << >>]

NoMetadata == [mimeType |-> "", filename |-> << >>, size |-> 0, rawResponse |-> Undefined]

\* nothing has run yet
Idle ==
    /\ parts = NoParts
    /\ metadata = NoMetadata
    /\ findResult = Undefined
    /\ cid = << >>
    /\ cidSource = ""
    /\ hostIdx = 0
    /\ attempts = << >>
    /\ encryptedData = << >>
    /\ decryptedData = << >>
    /\ thrown = << >>
    /\ httpResponse = NoResponse
    /\ rpcCalls = << >>
    /\ requests = << >>
    /\ replies = << >>

\* no function is run by itself
NoCall ==
    /\ input = << >>
    /\ output = << >>

Init ==
    /\ pc = "request"
    /\ request \in Requests
    /\ Idle
    /\ NoCall

\* the handler's catch: the error is answered with a status and a text
Fail(error) ==
    /\ thrown' = error
    /\ httpResponse' = ErrorResponse(error)
    /\ pc' = "done"

\* route.ts 4-31, parseVaultUrl, and fetchFileMetadata up to its await
HandleRequest ==
    /\ pc = "request"
    /\ UNCHANGED << input, output, request, metadata, findResult, cid, cidSource, hostIdx, attempts,
                    encryptedData, decryptedData, requests, replies >>
    /\ IF request.absent
       THEN /\ httpResponse' = TextResponse(400, "Missing vault URL parameter \"u\"")
            /\ pc' = "done"
            /\ UNCHANGED << parts, thrown, rpcCalls >>
       ELSE IF ~request.decodes
       THEN /\ Fail(<< Lit("URI malformed") >>)
            /\ UNCHANGED << parts, rpcCalls >>
       ELSE IF ~IncludesVaultHost(request)
       THEN /\ httpResponse' = TextResponse(400, "Invalid vault URL domain")
            /\ pc' = "done"
            /\ UNCHANGED << parts, thrown, rpcCalls >>
       ELSE LET p == parseVaultUrl(request)
            IN  IF ~p.ok
                THEN /\ Fail(Rethrow(p.error))
                     /\ UNCHANGED << parts, rpcCalls >>
                ELSE /\ parts' = p
                     /\ rpcCalls' = Append(rpcCalls, "/canine_chain.filetree.Query/File")
                     /\ pc' = "File"
                     /\ UNCHANGED << thrown, httpResponse >>

\* a faulty variant of FileReturns: a failed File query is sent once more
FileReturnsResends ==
    /\ pc = "File"
    /\ UNCHANGED << input, output, request, parts, findResult, cid, cidSource, hostIdx, attempts,
                    encryptedData, decryptedData, requests, replies >>
    /\ \E reply \in FileReplies :
        LET r == postAbciQuery(reply)
        IN  IF ~r.ok /\ Len(rpcCalls) = 1
            THEN /\ rpcCalls' = Append(rpcCalls, "/canine_chain.filetree.Query/File")
                 /\ UNCHANGED << pc, metadata, thrown, httpResponse >>
            ELSE IF ~r.ok
            THEN /\ Fail(Rethrow(<< Lit("Failed to fetch metadata: ") >> \o r.error))
                 /\ UNCHANGED << metadata, rpcCalls >>
            ELSE /\ metadata' = [mimeType |-> "image/png", filename |-> parts.fileId,
                                 size |-> 0, rawResponse |-> r.result]
                 /\ rpcCalls' = Append(rpcCalls, "/canine_chain.storage.Query/FindFile")
                 /\ pc' = "FindFile"
                 /\ UNCHANGED << thrown, httpResponse >>

\* fetchFileMetadata from its await on, then fetchEncryptedChunks and
\* getFindFileInfo up to the await of the FindFile query
FileReturns ==
    /\ pc = "File"
    /\ UNCHANGED << input, output, request, parts, findResult, cid, cidSource, hostIdx, attempts,
                    encryptedData, decryptedData, requests, replies >>
    /\ \E reply \in FileReplies :
        LET r == postAbciQuery(reply)
        IN  IF ~r.ok
            THEN /\ Fail(Rethrow(<< Lit("Failed to fetch metadata: ") >> \o r.error))
                 /\ UNCHANGED << metadata, rpcCalls >>
            ELSE /\ metadata' = [mimeType |-> "image/png", filename |-> parts.fileId,
                                 size |-> 0, rawResponse |-> r.result]
                 /\ rpcCalls' = Append(rpcCalls, "/canine_chain.storage.Query/FindFile")
                 /\ pc' = "FindFile"
                 /\ UNCHANGED << thrown, httpResponse >>

\* getFindFileInfo from its await on, the choice of the CID, and the GET to
\* the primary host
FindFileReturns ==
    /\ pc = "FindFile"
    /\ UNCHANGED << input, output, request, parts, metadata, attempts, encryptedData, decryptedData,
                    rpcCalls, replies >>
    /\ \E reply \in FindReplies :
        LET r       == postAbciQuery(reply)
            decoded == decodeFindFileValue(r.result)
            failed(cause) ==
                /\ Fail(Rethrow(<< Lit("Failed to fetch encrypted chunks: "),
                                   Lit("Failed to query FindFile: ") >> \o cause))
                /\ UNCHANGED << findResult, cid, cidSource, hostIdx, requests >>
        IN  IF ~r.ok THEN failed(r.error)
            ELSE IF ~decoded.ok THEN failed(<< Lit(decoded.error) >>)
            ELSE LET chosen == ChooseCid(decoded, collectHexCandidates(r.result, << >>, << >>),
                                         parts.fileId)
                 IN  /\ findResult' = r.result
                     /\ cid' = chosen.cid
                     /\ cidSource' = chosen.source
                     /\ hostIdx' = 1
                     /\ requests' = Append(requests, DownloadUrl(Providers[1], chosen.cid))
                     /\ pc' = "download"
                     /\ UNCHANGED << thrown, httpResponse >>

----------------------------------------------------------------------------
(* The downloads of fetchEncryptedChunks: the handler awaits the GET of      *)
(* requests[hostIdx], then the body of the answer. Each action is one way    *)
(* an await ends, with the code that runs until the next await. A reply      *)
(* (the ghost variable replies) is the provider's whole answer to one GET:   *)
(* kind "ok" (2xx, the body arrives), "bodyFails" (2xx, the body stream      *)
(* breaks), "notOk" (another status, with a body text) or "rejects".         *)

\* the element a sequence ends with
Last(seq) == seq[Len(seq)]

CurrentUrl == DownloadUrl(Providers[hostIdx], cid)

Reply(kind, status, body, text) ==
    [kind |-> kind, status |-> status, body |-> body, text |-> text]

\* the text put in error for a non-2xx answer: body || `status ${res.status}`
StatusError(status, text) ==
    IF text = "" THEN << Lit("status "), Num(status) >> ELSE << Lit(text) >>

\* attempts[attempts.length - 1].error = error
SetLastError(log, error) == [log EXCEPT ![Len(log)].error = error]

\* after a failed provider: the next fallback host is requested, or, past the
\* last one, lines 384-391 throw and the handler answers
NextProvider(log) ==
    /\ attempts' = log
    /\ IF hostIdx < NumProviders
       THEN /\ hostIdx' = hostIdx + 1
            /\ requests' = Append(requests, DownloadUrl(Providers[hostIdx + 1], cid))
            /\ pc' = "download"
            /\ UNCHANGED << thrown, httpResponse >>
       ELSE /\ Fail(Rethrow(ExhaustedError(log)))
            /\ UNCHANGED << hostIdx, requests >>

\* fetch resolves with a 2xx status: lines 315-326 and 357-368, up to the
\* await of res.arrayBuffer()
GetOk ==
    /\ pc = "download"
    /\ \E reply \in { Reply("ok", 200, body, "") : body \in Bodies }
                    \cup { Reply("bodyFails", 200, << >>, "") } :
        /\ replies' = Append(replies, reply)
        /\ attempts' = Push(attempts, DownloadAttempt(CurrentUrl, {reply.status}, << >>))
    /\ pc' = "arrayBuffer"
    /\ UNCHANGED << input, output, request, parts, metadata, findResult, cid, cidSource, hostIdx,
                    encryptedData, decryptedData, thrown, httpResponse, rpcCalls,
                    requests >>

\* a faulty variant of ArrayBufferReturns: the data is not returned and the next
\* host is tried
ArrayBufferFallsThrough ==
    /\ pc = "arrayBuffer"
    /\ Last(replies).kind = "ok"
    /\ NextProvider(attempts)
    /\ UNCHANGED << input, output, request, parts, metadata, findResult, cid, cidSource,
                    encryptedData, decryptedData, rpcCalls, replies >>

\* res.arrayBuffer() resolves: lines 326-329 and 368-371 return the data
ArrayBufferReturns ==
    /\ pc = "arrayBuffer"
    /\ Last(replies).kind = "ok"
    /\ encryptedData' = Last(replies).body
    /\ pc' = "decrypt"
    /\ UNCHANGED << input, output, request, parts, metadata, findResult, cid, cidSource, hostIdx,
                    attempts, decryptedData, thrown, httpResponse, rpcCalls,
                    requests, replies >>

\* res.arrayBuffer() rejects: the catch of lines 335-339 and 377-381 pushes
\* the error
ArrayBufferRejects ==
    /\ pc = "arrayBuffer"
    /\ Last(replies).kind = "bodyFails"
    /\ NextProvider(Push(attempts, DownloadAttempt(CurrentUrl, {}, << Lit("terminated") >>)))
    /\ UNCHANGED << input, output, request, parts, metadata, findResult, cid, cidSource,
                    encryptedData, decryptedData, rpcCalls, replies >>

\* fetch resolves with a non-2xx status: lines 315-325, 330-331 and 357-367,
\* 372-373, up to the await of res.text()
GetNotOk ==
    /\ pc = "download"
    /\ \E reply \in NonOkReplies :
        /\ replies' = Append(replies, Reply("notOk", reply.status, << >>, reply.text))
        /\ attempts' = Push(attempts, DownloadAttempt(CurrentUrl, {reply.status}, << >>))
    /\ pc' = "text"
    /\ UNCHANGED << input, output, request, parts, metadata, findResult, cid, cidSource, hostIdx,
                    encryptedData, decryptedData, thrown, httpResponse, rpcCalls,
                    requests >>

\* res.text().catch(() => "") resolves: lines 331-334 and 373-376 set the
\* error of the entry pushed last
TextReturns ==
    /\ pc = "text"
    /\ NextProvider(SetLastError(attempts,
                                 StatusError(Last(replies).status, Last(replies).text)))
    /\ UNCHANGED << input, output, request, parts, metadata, findResult, cid, cidSource,
                    encryptedData, decryptedData, rpcCalls, replies >>

\* a faulty variant of GetRejects: the rejection is not caught around the fetch and
\* leaves fetchEncryptedChunks through its outer catch
GetRejectsUncaught ==
    /\ pc = "download"
    /\ replies' = Append(replies, Reply("rejects", 0, << >>, ""))
    /\ Fail(Rethrow(<< Lit("Failed to fetch encrypted chunks: "), Lit("fetch failed") >>))
    /\ UNCHANGED << input, output, request, parts, metadata, findResult, cid, cidSource, hostIdx,
                    attempts, encryptedData, decryptedData, rpcCalls, requests >>

\* fetch rejects: lines 335-339 and 377-381
GetRejects ==
    /\ pc = "download"
    /\ replies' = Append(replies, Reply("rejects", 0, << >>, ""))
    /\ NextProvider(Push(attempts, DownloadAttempt(CurrentUrl, {}, << Lit("fetch failed") >>)))
    /\ UNCHANGED << input, output, request, parts, metadata, findResult, cid, cidSource,
                    encryptedData, decryptedData, rpcCalls >>

\* fetchAndDecryptVaultFile 439-440
Decrypt ==
    /\ pc = "decrypt"
    /\ decryptedData' = decryptFileData(encryptedData, parts.key, metadata)
    /\ pc' = "respond"
    /\ UNCHANGED << input, output, request, parts, metadata, findResult, cid, cidSource, hostIdx,
                    attempts, encryptedData, thrown, httpResponse, rpcCalls,
                    requests, replies >>

\* fetchAndDecryptVaultFile 442-448 and route.ts 31-49; metadata.mimeType is
\* set, and getMimeType returns it (lines 72-73)
Respond ==
    /\ pc = "respond"
    /\ httpResponse' = FileResponse(metadata.mimeType, decryptedData)
    /\ pc' = "done"
    /\ UNCHANGED << input, output, request, parts, metadata, findResult, cid, cidSource, hostIdx,
                    attempts, encryptedData, decryptedData, thrown, rpcCalls,
                    requests, replies >>

Next ==
    \/ HandleRequest
    \/ FileReturns
    \/ FindFileReturns
    \/ GetOk
    \/ ArrayBufferReturns
    \/ ArrayBufferRejects
    \/ GetNotOk
    \/ TextReturns
    \/ GetRejects
    \/ Decrypt
    \/ Respond

Spec == Init /\ [][Next]_vars

----------------------------------------------------------------------------
(* The handler when a server may stay silent. The fetch of postAbciQuery     *)
(* (part_002 49-56) and the fetch of fetchEncryptedChunks (jackalVault.ts    *)
(* 315, 357) are awaited without a signal, a timer or a race: when the       *)
(* answer never comes the await never ends, and the handler stays where it   *)
(* is (pc = "pending").                                                      *)

\* the RPC endpoint never answers the query the handler awaits
RpcNeverAnswers ==
    /\ pc \in {"File", "FindFile"}
    /\ pc' = "pending"
    /\ UNCHANGED << input, output, request, parts, metadata, findResult, cid, cidSource, hostIdx,
                    attempts, encryptedData, decryptedData, thrown, httpResponse, rpcCalls,
                    requests, replies >>

\* the provider never answers the GET the handler awaits
GetNeverAnswers ==
    /\ pc = "download"
    /\ replies' = Append(replies, Reply("never", 0, << >>, << >>))
    /\ pc' = "pending"
    /\ UNCHANGED << input, output, request, parts, metadata, findResult, cid, cidSource, hostIdx,
                    attempts, encryptedData, decryptedData, thrown, httpResponse, rpcCalls,
                    requests >>

SilentNext ==
    \/ HandleRequest
    \/ FileReturns
    \/ FindFileReturns
    \/ GetOk
    \/ ArrayBufferReturns
    \/ ArrayBufferRejects
    \/ GetNotOk
    \/ TextReturns
    \/ GetRejects
    \/ Decrypt
    \/ Respond
    \/ RpcNeverAnswers
    \/ GetNeverAnswers

\* the places of the handler
PcValues ==
    {"request", "File", "FindFile", "download", "arrayBuffer", "text", "decrypt", "respond",
     "done", "pending"}

\* the handler has a step to take: it has not answered and the await it is
\* at has ended
Running == pc \notin {"done", "pending"}

\* the handler goes on: each of its steps moves it to another place or to
\* the next provider
Resume ==
    /\ Running
    /\ pc' \in PcValues
    /\ hostIdx' \in 0..NumProviders

\* the event loop runs every continuation whose await has ended, so a
\* handler that can go on does
SilentSpec == Init /\ [][SilentNext]_vars /\ WF_<< pc, hostIdx >>(Resume)

----------------------------------------------------------------------------
(* postAbciQuery on its own: every answer of the endpoint is handled once *)

K_message == << "m","e","s","s","a","g","e" >>

\* obj has a member of this name
HasMember(obj, key) == obj.t = "obj" /\ \E i \in 1..Len(obj.kids) : obj.kids[i].k = key

\* a JSON-RPC response: an object with a result or an error
IsEnvelope(json) == HasMember(json, K_result) \/ HasMember(json, K_error)

\* error.name of what postAbciQuery threw: its catch builds a new Error
\* whatever it caught
ErrorName(outcome) == IF outcome.ok THEN "" ELSE "Error"

RpcStatuses == {199, 200, 201, 299, 300, 404, 500}

\* bodies that parse as JSON: envelopes with a result, with an error, with
\* both, with an error of null, and JSON that is no envelope
RpcBodies ==
    { Envelope(AbciResult(B64_short, << >>)),
      Envelope(JNull),
      ErrorEnvelope,
      JObj(<< [k |-> K_error, v |-> JStr(<< "x" >>)], [k |-> K_result, v |-> JNum] >>),
      JObj(<< [k |-> K_error, v |-> JNull], [k |-> K_result, v |-> JNum] >>),
      JObj(<< >>),
      JObj(<< [k |-> K_message, v |-> JStr(<< "x" >>)] >>),
      JArr(<< >>),
      JNum,
      JStr(<< "x" >>),
      JNull }

RpcInputs ==
    { RpcReply(TRUE, 0, FALSE, Undefined) }
    \cup { RpcReply(FALSE, status, FALSE, Undefined) : status \in RpcStatuses }
    \cup { RpcReply(FALSE, status, TRUE, body) : status \in RpcStatuses, body \in RpcBodies }

RpcInit ==
    /\ pc = "query"
    /\ request = NoParam
    /\ Idle
    /\ input \in RpcInputs
    /\ output = << >>

RpcReturns ==
    /\ pc = "query"
    /\ output' = postAbciQuery(input)
    /\ pc' = "answered"
    /\ UNCHANGED << input, request, parts, metadata, findResult, cid, cidSource, hostIdx,
                    attempts, encryptedData, decryptedData, thrown, httpResponse, rpcCalls,
                    requests, replies >>

RpcNext == RpcReturns

RpcSpec == RpcInit /\ [][RpcNext]_vars

----------------------------------------------------------------------------
(* parseVaultUrl on its own: every share URL of the bounds is parsed once *)

SegChars == {"o", "."}

KeyChars == {"K", "+", "%", "4"}

TextsUpTo(chars, n) == UNION { [1..m -> chars] : m \in 0..n }

\* /v/{a}/{b}
SharePath(a, b) == << "/","v","/" >> \o a \o << "/" >> \o b

\* ?k={c}
KeyQuery(c) == << "?","k","=" >> \o c

ParsePaths ==
    { SharePath(a, b) : a, b \in TextsUpTo(SegChars, MaxSegLen) }
    \cup { << "/" >>, << "/","v" >>, Path_short, Path_share, << "/","x","/","o","/","o" >>,
           << "/","o","/","v","/","o","/","o" >>, Path_share \o << "/","o" >> }

ParseQueries ==
    { KeyQuery(c) : c \in TextsUpTo(KeyChars, MaxKeyLen) }
    \cup { << >>, << "?","j","=","K" >>, << "?","j","=","K","&","k","=","K" >> }

ParseInputs ==
    { ShareUrl(TRUE, TRUE, VaultHost, p, q) : p \in ParsePaths, q \in ParseQueries }
    \cup { ShareUrl(TRUE, FALSE, "", Path_share, Query_key) }

ParseInit ==
    /\ pc = "parse"
    /\ request \in ParseInputs
    /\ Idle
    /\ NoCall

ParseReturns ==
    /\ pc = "parse"
    /\ parts' = parseVaultUrl(request)
    /\ pc' = "parsed"
    /\ UNCHANGED << input, output, request, metadata, findResult, cid, cidSource, hostIdx, attempts,
                    encryptedData, decryptedData, thrown, httpResponse, rpcCalls,
                    requests, replies >>

ParseNext == ParseReturns

ParseSpec == ParseInit /\ [][ParseNext]_vars

----------------------------------------------------------------------------
(* analyzeVault of find-mainnet-endpoints.js, steps 4 on: the pool of CID   *)
(* candidates. Its input is what the RPC endpoint answered: the envelope of  *)
(* the File query and, per strategy of the FindFile query, the envelope or   *)
(* the { error } object put in its place.                                    *)

\* one character of val.toLowerCase()
LowerChar(c) ==
    LET upper == << "A","B","C","D","E","F","G","H","I","J","K","L","M",
                    "N","O","P","Q","R","S","T","U","V","W","X","Y","Z" >>
        lower == << "a","b","c","d","e","f","g","h","i","j","k","l","m",
                    "n","o","p","q","r","s","t","u","v","w","x","y","z" >>
    IN  IF \E i \in 1..26 : upper[i] = c
        THEN lower[CHOOSE i \in 1..26 : upper[i] = c]
        ELSE c

ToLowerCase(text) == [i \in 1..Len(text) |-> LowerChar(text[i])]

CidCandidate(source, path, value) == [source |-> source, path |-> path, value |-> value]

RECURSIVE extractHexCandidates(_, _, _), ExtractMembers(_, _, _, _), ExtractItems(_, _, _, _)

\* val.forEach: item idx is visited under `${currentPath}[${idx}]`
ExtractItems(items, i, currentPath, candidates) ==
    IF i > Len(items) THEN candidates
    ELSE ExtractItems(items, i + 1, currentPath,
            extractHexCandidates(items[i].v, currentPath \o << "[" >> \o items[i].k \o << "]" >>,
                                 candidates))

\* the for loop over Object.entries(obj), from member i on
ExtractMembers(members, i, path, candidates) ==
    IF i > Len(members) THEN candidates
    ELSE
        LET val         == members[i].v
            currentPath == IF Len(path) > 0 THEN path \o << "." >> \o members[i].k
                           ELSE members[i].k
            next ==
                IF val.t = "str" /\ IsHex64(val.s)
                THEN Append(candidates,
                            CidCandidate("object-traversal", currentPath, ToLowerCase(val.s)))
                ELSE IF val.t = "arr" THEN ExtractItems(val.kids, 1, currentPath, candidates)
                ELSE IF val.t \in {"obj", "null"}
                THEN extractHexCandidates(val, currentPath, candidates)
                ELSE candidates
        IN  ExtractMembers(members, i + 1, path, next)

extractHexCandidates(obj, path, candidates) ==
    IF obj.t \notin {"obj", "arr"} THEN candidates
    ELSE ExtractMembers(obj.kids, 1, path, candidates)

\* the 32-byte windows, then the runs that follow a length byte of 32
extractBinaryCandidates(data) ==
    LET hash(i)  == ToHex(Slice(data, i, i + HashLen))
        windows  == SelectSeq(Offsets(Len(data) - HashLen), LAMBDA i : IsHex64(hash(i)))
        str(i)   == ToHex(Slice(data, i + 1, i + 1 + data[i + 1]))
        prefixed == SelectSeq(Offsets(Len(data) - 2),
                              LAMBDA i : /\ data[i + 1] = HashLen
                                         /\ i + 1 + data[i + 1] <= Len(data)
                                         /\ IsHex64(str(i)))
    IN  [n \in 1..Len(windows) |->
            CidCandidate("binary-scan", << "offset-", ToString(windows[n]) >>,
                         hash(windows[n]))]
        \o [n \in 1..Len(prefixed) |->
            CidCandidate("protobuf-string",
                         << "offset-", ToString(prefixed[n]), "-len-", ToString(HashLen) >>,
                         str(prefixed[n]))]

\* the decoded value of the first FindFile response that has one
DecodedData(findFileResponses) ==
    LET has(item) == Truthy(FindValue(item.response)) /\ FindValue(item.response).t = "str"
        hits      == SelectSeq(findFileResponses, has)
    IN  IF Len(hits) = 0 THEN [found |-> FALSE, data |-> << >>]
        ELSE [found |-> TRUE, data |-> Base64Decode(FindValue(hits[1].response).s)]

RECURSIVE FindFileCandidates(_, _, _)
\* lines 486-489: the candidates of each FindFile response, in turn
FindFileCandidates(findFileResponses, i, out) ==
    IF i > Len(findFileResponses) THEN out
    ELSE FindFileCandidates(findFileResponses, i + 1,
            extractHexCandidates(findFileResponses[i].response,
                                 << "findfile.", findFileResponses[i].strategy >>, out))

\* lines 460-489
allCandidates(fileResponse, findFileResponses) ==
    LET decoded == DecodedData(findFileResponses)
        binary  == IF decoded.found THEN extractBinaryCandidates(decoded.data) ELSE << >>
    IN  FindFileCandidates(findFileResponses, 1,
            extractHexCandidates(fileResponse, << "file" >>, binary))

\* self.findIndex(c => c.value === value)
FindIndex(self, value) ==
    CHOOSE i \in 1..Len(self) :
        self[i].value = value /\ \A j \in 1..(i - 1) : self[j].value # value

\* a faulty variant of uniqueCandidates: entries are compared by source and value
uniqueBySourceAndValue(all) ==
    LET first(i) == \A j \in 1..(i - 1) :
                        all[j].value # all[i].value \/ all[j].source # all[i].source
        kept     == SelectSeq([i \in 1..Len(all) |-> i], first)
    IN  [n \in 1..Len(kept) |-> all[kept[n]]]

\* lines 492-494: filter((candidate, index, self) => index === self.findIndex(...))
uniqueCandidates(all) ==
    LET kept == SelectSeq([i \in 1..Len(all) |-> i],
                          LAMBDA i : i = FindIndex(all, all[i].value))
    IN  [n \in 1..Len(kept) |-> all[kept[n]]]

\* 32 bytes 0xaa
B64_aa32 == Rep(<< "q","q","q","q" >>, 10) \o << "q","q","o","=" >>

WithUpperKey == << [k |-> K_key, v |-> JStr(Rep(<< "A" >>, CidHexLen))] >>

\* what the catch of lines 447-453 stores for a query that failed
RpcFailure == JObj(<< [k |-> K_error, v |-> JStr(<< "f","a","i","l","e","d" >>)] >>)

PoolFileResponses ==
    { Envelope(AbciResult(B64_short, << >>)),
      Envelope(AbciResult(B64_short, WithKey)),
      Envelope(AbciResult(B64_short, WithUpperKey)),
      Envelope(JObj(<< [k |-> K_value, v |-> JArr(<< JStr(Hex_aa), JStr(Hex_aa) >>)] >>)) }

PoolFindResponses ==
    { RpcFailure,
      Envelope(AbciResult(<< >>, WithUpperKey)),
      Envelope(AbciResult(B64_short, WithKey)),
      Envelope(AbciResult(B64_raw32, << >>)),
      Envelope(AbciResult(B64_prefixed32, << >>)),
      Envelope(AbciResult(B64_aa32, WithKey)) }

\* buildFindFileQueryData for a ULID: the strategies, in order
FindFileStrategies == << "ulid-as-utf8", "sha256-of-ulid" >>

PoolInputs ==
    { [fileResponse |-> f,
       findFileResponses |-> << [strategy |-> FindFileStrategies[1], response |-> r1],
                                [strategy |-> FindFileStrategies[2], response |-> r2] >>] :
        f \in PoolFileResponses, r1 \in PoolFindResponses, r2 \in PoolFindResponses }

PoolInit ==
    /\ pc = "pool"
    /\ input \in PoolInputs
    /\ output = << >>
    /\ request = NoParam
    /\ Idle

PoolReturns ==
    /\ pc = "pool"
    /\ output' = uniqueCandidates(allCandidates(input.fileResponse, input.findFileResponses))
    /\ pc' = "pooled"
    /\ UNCHANGED << input, request, parts, metadata, findResult, cid, cidSource, hostIdx,
                    attempts, encryptedData, decryptedData, thrown, httpResponse,
                    rpcCalls, requests, replies >>

PoolNext == PoolReturns

PoolSpec == PoolInit /\ [][PoolNext]_vars

----------------------------------------------------------------------------
(* Properties *)

\* fetchEncryptedChunks returned data
Downloaded == pc \in {"decrypt", "respond"} \/ (pc = "done" /\ httpResponse.status = 200)

\* fetchEncryptedChunks threw after the last provider failed
Exhausted ==
    /\ pc = "done"
    /\ Len(replies) = NumProviders
    /\ Last(replies).kind # "ok"

\* the attempt log carried by the error that was thrown
ErrorAttempts == Last(thrown).att

Range(seq) == { seq[i] : i \in 1..Len(seq) }

\* the hash values the FindFile response yields, by source
PrefixedHits ==
    { h.value : h \in { x \in Range(decodeFindFileValue(findResult).potentialHexStrings) :
                        Len(x.value) = CidHexLen } }

WindowHits == { h.hash : h \in Range(decodeFindFileValue(findResult).possibleHashes) }

StructuralHits ==
    { SubSeq(c, Len(c) - CidHexLen + 1, Len(c)) :
        c \in Range(collectHexCandidates(findResult, << >>, << >>)) }

\* the CID candidates of the resolution: what the sources found, and the
\* digest of the contentId when they found nothing
CidCandidates ==
    IF PrefixedHits \cup WindowHits \cup StructuralHits = {}
    THEN { Sha256Hex(parts.fileId) }
    ELSE PrefixedHits \cup WindowHits \cup StructuralHits

\* provider n is the first to answer 2xx, and those before it answered non-2xx
FirstOkAt(n) ==
    /\ Len(replies) >= n
    /\ replies[n].kind = "ok"
    /\ \A i \in 1..(n - 1) : replies[i].kind = "notOk"

\* C1: when the Nth provider of the fixed order is the first to answer 2xx and
\* those before it answered non-2xx, then, once its body is read, the download
\* has succeeded with that provider's body; exactly N GETs were issued (to the
\* first N providers, in order), the log holds N entries, and this stays so:
\* no later provider is contacted.
C1_ShortCircuit ==
    \A n \in 1..NumProviders :
        FirstOkAt(n) =>
            /\ pc # "arrayBuffer" => Downloaded /\ encryptedData = replies[n].body
            /\ Len(requests) = n
            /\ \A i \in 1..n : requests[i].host = Providers[i] /\ requests[i].cid = cid
            /\ Len(attempts) = n
            /\ thrown = << >>

C1_Witness ==
    /\ FirstOkAt(3)
    /\ pc = "done"
    /\ Len(replies[3].body) > 0

\* C2: when every download failed (here: each by a non-2xx answer or a
\* rejected fetch), the attempt log of the error is as long as the number of
\* CID candidates times the number of providers.
C2_ExhaustionLogLength ==
    Exhausted /\ (\A i \in 1..Len(replies) : replies[i].kind \in {"notOk", "rejects"})
        => Len(ErrorAttempts) = Cardinality(CidCandidates) * NumProviders

\* decryptFileData has returned
Decrypted == pc = "respond" \/ (pc = "done" /\ httpResponse.status = 200)

\* C3: decryptFileData never returns its input ciphertext (here: a ciphertext
\* of at least one byte) as the result.
C3_DecryptNeverReturnsInput ==
    Decrypted /\ Len(encryptedData) > 0 => decryptedData # encryptedData

\* C4: a 200 response of GET /raw never carries the ciphertext a provider
\* served (here: a ciphertext of at least one byte).
C4_No200WithCiphertext ==
    httpResponse.status = 200 /\ Len(Last(replies).body) > 0
        => httpResponse.body # Last(replies).body

\* C5: the CID downloaded is a structural-traversal hit whenever there is one,
\* and the digest of the contentId only when no source found a candidate.
C5_StructuralFirst ==
    hostIdx >= 1 =>
        /\ StructuralHits # {} => cid \in StructuralHits
        /\ cidSource = "sha256" => PrefixedHits \cup WindowHits \cup StructuralHits = {}

\* C6: retrieval gives up only after every candidate was requested from every
\* provider.
C6_AllCandidatesTried ==
    Exhausted =>
        \A c \in CidCandidates : \A i \in 1..NumProviders :
            \E k \in 1..Len(requests) : requests[k].host = Providers[i] /\ requests[k].cid = c

\* the place of a URL in the order of the GETs
RequestIndex(url) == CHOOSE k \in 1..Len(requests) : requests[k] = url

C7_LogFollowsRequests ==
    /\ \A i, j \in 1..Len(requests) : i # j => requests[i] # requests[j]
    /\ \A i \in 1..Len(attempts) : attempts[i].url \in Range(requests)
    /\ \A k \in 1..Len(replies) : \E i \in 1..Len(attempts) : attempts[i].url = requests[k]
    /\ \A i, j \in 1..Len(attempts) :
          i < j => RequestIndex(attempts[i].url) <= RequestIndex(attempts[j].url)

\* log b continues log a: the entries of a are in b at their places, each with
\* the URL and the status it had and with the error text it had, if it had one
Continues(a, b) ==
    /\ Len(a) <= Len(b)
    /\ \A i \in 1..Len(a) :
          /\ b[i].url = a[i].url
          /\ b[i].status = a[i].status
          /\ a[i].error # << >> => b[i].error = a[i].error

C8_SuccessHasBody == Downloaded => Len(encryptedData) > 0

\* the answer to a GET arrives and is a failure of the two kinds the claim
\* names
FailedGet ==
    /\ pc = "download"
    /\ Len(replies') = Len(replies) + 1
    /\ Last(replies').kind \in {"notOk", "rejects"}

\* the handling of a GET that gave no data comes to its end
FailureHandled ==
    \/ pc = "download" /\ Len(replies') = Len(replies) + 1 /\ Last(replies').kind = "rejects"
    \/ pc = "text" /\ pc' # "text"
    \/ pc = "arrayBuffer" /\ pc' # "arrayBuffer" /\ Last(replies).kind = "bodyFails"

\* C9: a GET that fails by a non-2xx status or a rejected fetch appends one
\* record, holding the URL and the status or the error text; when the
\* handling of a GET that gave no data ends, the log holds that record with an
\* error text and the GET to the next provider is issued while one is left;
\* retrieval gives up only at the last provider.
C9_FailureMovesOn ==
    [][ /\ FailedGet =>
            /\ Len(attempts') = Len(attempts) + 1
            /\ Continues(attempts, attempts')
            /\ Last(attempts').url = Last(requests)
            /\ Last(replies').kind = "notOk" => Last(attempts').status = {Last(replies').status}
            /\ Last(replies').kind = "rejects" => Last(attempts').error # << >>
        /\ pc = "text" => Len(attempts') = Len(attempts)
        /\ FailureHandled =>
            /\ Last(attempts').url = Last(requests)
            /\ Last(attempts').error # << >>
            /\ IF Len(requests) < NumProviders
               THEN /\ pc' = "download"
                    /\ thrown' = << >>
                    /\ requests' = Append(requests, [host |-> Providers[Len(requests) + 1], cid |-> cid])
               ELSE pc' = "done" /\ thrown' # << >> ]_vars

C9_Witness ==
    /\ Len(replies) >= 3
    /\ replies[1].kind = "rejects"
    /\ replies[2].kind = "notOk"
    /\ replies[3].kind = "bodyFails"
    /\ Len(requests) = 4
    /\ Len(attempts) = 4

\* the object of the error's JSON text tells the attempt: its URL, its status
\* if it has one, its error if it has one
Tells(object, attempt) ==
    /\ Len(object) >= 5
    /\ object[1] = Key("url")
    /\ object[3].s = attempt.url.host
    /\ object[5].cs = attempt.url.cid
    /\ attempt.status # {} =>
          \E j \in 6..(Len(object) - 1) :
              object[j] = Key("status") /\ object[j + 1].t = "num" /\ {object[j + 1].n} = attempt.status
    /\ attempt.error # << >> =>
          \E j \in 6..Len(object) :
              object[j] = Key("error") /\ SubSeq(object, j + 1, Len(object)) = attempt.error
    /\ \E j \in 6..Len(object) : object[j] \in {Key("status"), Key("error")}

\* C10: when all providers have failed, the error thrown to the caller of
\* fetchAndDecryptVaultFile holds every recorded attempt, in order, each with
\* its endpoint and its status or error, and every GET issued is among them.
C10_ErrorCarriesAttempts ==
    Exhausted =>
        /\ Last(thrown).t = "json"
        /\ Len(ErrorAttempts) = Len(attempts)
        /\ \A i \in 1..Len(attempts) : Tells(ErrorAttempts[i], attempts[i])
        /\ \A k \in 1..Len(requests) :
              \E i \in 1..Len(ErrorAttempts) :
                  ErrorAttempts[i][3].s = requests[k].host /\ ErrorAttempts[i][5].cs = requests[k].cid

C10_Witness ==
    /\ Exhausted
    /\ Len(ErrorAttempts) > NumProviders
    /\ \E i \in 1..Len(attempts) : attempts[i].status = {} 
    /\ \E i \in 1..Len(attempts) : attempts[i].status = {404}

----------------------------------------------------------------------------
(* parseVaultUrl *)

\* the path of the URL as the URL parser gives it, split at "/"
UrlPathParts == Split(Pathname(request.path), "/")

\* the URL is absolute, its path is /v/{a}/{b} with a and b not empty, and
\* its query is k={c} with c not empty
IsShareShape ==
    /\ request.absolute
    /\ Len(UrlPathParts) = 4
    /\ UrlPathParts[2] = << "v" >>
    /\ UrlPathParts[3] # << >>
    /\ UrlPathParts[4] # << >>
    /\ Len(request.query) > 3
    /\ SubSeq(request.query, 1, 3) = << "?","k","=" >>

\* the c of k={c}, as written in the URL
WrittenKey == SubSeq(request.query, 4, Len(request.query))

\* C11 as stated: for every URL with path /v/{a}/{b} and query k={c}, a, b, c
\* not empty, parseVaultUrl returns exactly (a, b, c).
C11_ReturnsWrittenTriple ==
    pc = "parsed" /\ IsShareShape =>
        /\ parts.ok
        /\ parts.vaultAddress = UrlPathParts[3]
        /\ parts.fileId = UrlPathParts[4]
        /\ parts.key = WrittenKey

\* C11 amended: for every such URL parseVaultUrl returns a and b as they
\* stand in the path and, as the key, c with its form encoding decoded ("+" is
\* a space, %XX the character of that code); it is exactly (a, b, c) when c
\* holds neither "+" nor "%".
C11_ReturnsDecodedTriple ==
    pc = "parsed" /\ IsShareShape =>
        /\ parts.ok
        /\ parts.vaultAddress = UrlPathParts[3]
        /\ parts.fileId = UrlPathParts[4]
        /\ parts.key = FormDecode(WrittenKey)
        /\ (\A i \in 1..Len(WrittenKey) : WrittenKey[i] \notin {"+", "%"})
              => parts.key = WrittenKey

C11_Witness ==
    /\ pc = "parsed"
    /\ IsShareShape
    /\ request.path = SharePath(<< "o" >>, << "o", "o" >>)
    /\ WrittenKey = << "%", "4", "4" >>
    /\ parts.key = << "D" >>

\* what url.searchParams.get('k') finds in the URL
KParam == SearchParamsGet(request.query, << "k" >>)

\* C12: parseVaultUrl fails with an error and returns no part for every URL
\* whose path has fewer than four segments, or a second segment other than
\* "v", or an empty owner or file id, or whose k parameter is absent or empty.
C12_MalformedFails ==
    pc = "parsed"
    /\ ( \/ Len(UrlPathParts) < 4
         \/ UrlPathParts[2] # << "v" >>
         \/ UrlPathParts[3] = << >>
         \/ UrlPathParts[4] = << >>
         \/ ~KParam.found
         \/ KParam.value = << >> )
    => /\ ~parts.ok
       /\ parts.error # << >>
       /\ parts.vaultAddress = << >> /\ parts.fileId = << >> /\ parts.key = << >>

C12_Witness ==
    /\ pc = "parsed"
    /\ request.path = Path_share
    /\ request.query = << "?","j","=","K" >>
    /\ ~parts.ok
    /\ parts.error = << Lit("Failed to parse vault URL: "), Lit("Missing required URL components") >>

----------------------------------------------------------------------------
(* Resolution of the CID, errors and stages *)

\* the FindFile query was sent and its answer has been handled
FindAnswered == Len(rpcCalls) = 2 /\ pc # "FindFile"

\* C13: CID resolution never fails for lack of a candidate: once the find
\* query is answered, whatever the answer (a failed query, a missing or empty
\* value), a download has been attempted, and with the SHA-256 digest of the
\* file id when the answer held no hash.
C13_DigestFallbackAlways ==
    FindAnswered =>
        /\ Len(requests) >= 1
        /\ PrefixedHits \cup WindowHits \cup StructuralHits = {}
              => requests[1].cid = Sha256Hex(parts.fileId)

----------------------------------------------------------------------------
(* getMimeType on its own *)

\* longest text put before the extension of a filename given to getMimeType
MaxStemLen == 1

\* the metadata argument: undefined, or an object that may have a mimeType
MimeMetadata(defined, hasMimeType, mimeType) ==
    [defined |-> defined, hasMimeType |-> hasMimeType, mimeType |-> mimeType]

\* the filename argument: undefined, or a text
MimeFilename(defined, text) == [defined |-> defined, text |-> text]

\* the mimeType of the switch for a lower-case extension
MimeOfExt(ext) ==
    CASE ext \in { << "j","p","g" >>, << "j","p","e","g" >> } -> "image/jpeg"
      [] ext = << "p","n","g" >> -> "image/png"
      [] ext = << "g","i","f" >> -> "image/gif"
      [] ext = << "w","e","b","p" >> -> "image/webp"
      [] ext = << "s","v","g" >> -> "image/svg+xml"
      [] OTHER -> "image/png"

\* a faulty variant of getMimeType: the extension is taken as written
getMimeTypeAsWritten(meta, filename) ==
    IF meta.defined /\ meta.hasMimeType /\ meta.mimeType # ""
    THEN meta.mimeType
    ELSE IF filename.defined /\ filename.text # << >>
    THEN MimeOfExt(Last(Split(filename.text, ".")))
    ELSE "image/png"

getMimeType(meta, filename) ==
    IF meta.defined /\ meta.hasMimeType /\ meta.mimeType # ""
    THEN meta.mimeType
    ELSE IF filename.defined /\ filename.text # << >>
    THEN MimeOfExt(Last(Split(ToLowerCase(filename.text), ".")))
    ELSE "image/png"

StemChars == {"a", "."}

MimeExts ==
    { << "j","p","g" >>, << "J","P","G" >>, << "j","p","e","g" >>, << "J","p","e","G" >>,
      << "p","n","g" >>, << "P","N","G" >>, << "g","i","f" >>, << "w","e","b","p" >>,
      << "s","v","g" >>, << "S","v","g" >>, << "x","y","z" >>, << "p","n" >>, << >> }

MimeFilenames ==
    { MimeFilename(FALSE, << >>) }
    \cup { MimeFilename(TRUE, stem \o dot \o ext) :
             stem \in TextsUpTo(StemChars, MaxStemLen), dot \in { << >>, << "." >> },
             ext \in MimeExts }

MimeMetadatas ==
    { MimeMetadata(FALSE, FALSE, ""), MimeMetadata(TRUE, FALSE, ""), MimeMetadata(TRUE, TRUE, ""),
      MimeMetadata(TRUE, TRUE, "application/pdf") }

MimeInit ==
    /\ pc = "mime"
    /\ request = NoParam
    /\ Idle
    /\ input \in [metadata : MimeMetadatas, filename : MimeFilenames]
    /\ output = << >>

MimeReturns ==
    /\ pc = "mime"
    /\ output' = getMimeType(input.metadata, input.filename)
    /\ pc' = "typed"
    /\ UNCHANGED << input, request, parts, metadata, findResult, cid, cidSource, hostIdx,
                    attempts, encryptedData, decryptedData, thrown, httpResponse,
                    rpcCalls, requests, replies >>

MimeNext == MimeReturns

MimeSpec == MimeInit /\ [][MimeNext]_vars

----------------------------------------------------------------------------
(* analyzeVault: the pool of candidates *)

\* every candidate analyzeVault collected, before duplicates are removed
Pooled == allCandidates(input.fileResponse, input.findFileResponses)

\* C14: the pooled list uniqueCandidates holds no two entries with the same
\* hash value, and every hash value that was found is in it (hence exactly
\* once), and nothing else.
C14_PoolHasEachValueOnce ==
    pc = "pooled" =>
        /\ \A i, j \in 1..Len(output) : i # j => output[i].value # output[j].value
        /\ { output[i].value : i \in 1..Len(output) } = { Pooled[i].value : i \in 1..Len(Pooled) }
        /\ \A i \in 1..Len(output) : \E j \in 1..Len(Pooled) : output[i] = Pooled[j]

C14_Witness ==
    /\ pc = "pooled"
    /\ Len(output) >= 2
    /\ Len(Pooled) > Len(output)
    /\ \E i, j \in 1..Len(Pooled) :
          Pooled[i].value = Pooled[j].value /\ Pooled[i].source # Pooled[j].source

\* the kinds of error the handler's catch receives, by the text the stage
\* that raised it put in the message
IsMalformedUrlError ==
    thrown # << >>
    /\ thrown[1] \in {Lit("Failed to parse vault URL: "), Lit("URI malformed")}

IsRpcError == \E i \in 1..Len(thrown) : thrown[i] = Lit("Failed to query Jackal RPC: ")

IsExhaustionError ==
    \E i \in 1..Len(thrown) :
        thrown[i] = Lit("Failed to download from any storage provider. Attempts: ")

\* C15: every error of the pipeline is answered with a plain-text body and
\* the status of its kind: 400 for a malformed share URL, a 502-class status
\* for a failure of the RPC layer, 404 or 502 for retrieval exhaustion.
C15_StatusByErrorKind ==
    pc = "done" /\ thrown # << >> =>
        /\ httpResponse.contentType = "text/plain"
        /\ IsMalformedUrlError => httpResponse.status = 400
        /\ IsRpcError => httpResponse.status \in {502, 503, 504}
        /\ IsExhaustionError => httpResponse.status \in {404, 502}

\* the RPC queries of one resolution, in the order of the pipeline
PipelineQueries ==
    << "/canine_chain.filetree.Query/File", "/canine_chain.storage.Query/FindFile" >>

\* what the stages have done so far agrees with the order parse, metadata
\* query, find query, download, decrypt
InPipelineOrder ==
    /\ \E n \in 0..2 : rpcCalls = SubSeq(PipelineQueries, 1, n)
    /\ rpcCalls # << >> => parts.ok
    /\ requests # << >> => Len(rpcCalls) = 2
    /\ decryptedData # << >> => Downloaded
    /\ thrown # << >> => pc = "done" /\ httpResponse.status >= 400

\* the step in which a stage fails invokes nothing, and no step follows it
FailFast ==
    /\ thrown # << >> => UNCHANGED vars
    /\ thrown = << >> /\ thrown' # << >> =>
          /\ pc' = "done"
          /\ UNCHANGED << rpcCalls, requests, decryptedData >>

\* C16: the resolution runs parse, metadata query, find query, download,
\* decrypt in this order; a failure of a stage ends it with an error and no
\* later stage runs; the File query and the FindFile query are each sent at
\* most once.
C16_SequentialFailFast ==
    /\ []InPipelineOrder
    /\ [][FailFast]_vars

C16_Witness ==
    /\ pc = "done"
    /\ thrown # << >>
    /\ Len(rpcCalls) = 2
    /\ requests = << >>

\* C17: a call that is never answered counts as a failed attempt after a
\* bounded wait, so every resolution ends with a result or an error.
C17_EveryResolutionEnds == <>(pc = "done")

\* the three failures of the endpoint's answer, "rejected" when there is no
\* answer, "clean" otherwise
RpcCase(reply) ==
    IF reply.rejects THEN "rejected"
    ELSE IF ~IsOkStatus(reply.status) THEN "transport"
    ELSE IF ~reply.parses \/ ~IsEnvelope(reply.envelope) THEN "decode"
    ELSE IF Truthy(Member(reply.envelope, K_error)) THEN "protocol"
    ELSE "clean"

\* the kinds of error of the three failures
KindName ==
    [transport |-> "TransportError", protocol |-> "ProtocolError", decode |-> "DecodeError"]

\* C18: postAbciQuery returns only for a successful status with a body that
\* parses as an envelope without error; for a failed status, an unparsable
\* body or an envelope with an error it throws, each with its own kind of
\* error.
C18_ReturnsOnlyCleanEnvelope ==
    pc = "answered" =>
        /\ output.ok => RpcCase(input) = "clean"
        /\ RpcCase(input) \in DOMAIN KindName =>
              ~output.ok /\ ErrorName(output) = KindName[RpcCase(input)]

\* the share URL https://vault.jackalprotocol.com/v/owner1/ID123?k=KEY1
ShareRequest == ShareUrl(TRUE, TRUE, VaultHost, Path_share, Query_key)

\* the hex texts the structural traversal finds in a JSON value
StructuralIn(json) ==
    { SubSeq(c, Len(c) - CidHexLen + 1, Len(c)) :
        c \in Range(collectHexCandidates(json, << >>, << >>)) }

\* the resolution of ShareRequest has ended; the RPC endpoint answered both
\* queries, the metadata it returned holds the hex of 32 bytes 0xaa, and the
\* first provider serves what it is asked for
ScenarioEnded ==
    /\ pc = "done"
    /\ request = ShareRequest
    /\ Len(rpcCalls) = 2
    /\ ~IsRpcError
    /\ Hex_aa \in StructuralIn(metadata.rawResponse)
    /\ replies # << >> => replies[1].kind = "ok"

\* C19: in this scenario the resolution succeeds after one download attempt,
\* made to the first provider for the CID the structural traversal found
\* (aa repeated 32 times).
C19_EndToEndStructural ==
    ScenarioEnded =>
        /\ httpResponse.status = 200
        /\ Len(attempts) = 1
        /\ requests = << DownloadUrl(Providers[1], Hex_aa) >>
        /\ cidSource = "candidates"

----------------------------------------------------------------------------
(* The MIME type *)

\* the metadata carries a MIME hint
HasHint == input.metadata.defined /\ input.metadata.hasMimeType /\ input.metadata.mimeType # ""

\* where the last dot of text stands (0: it has none)
LastDot(text) ==
    IF \E i \in 1..Len(text) : text[i] = "."
    THEN CHOOSE i \in 1..Len(text) : text[i] = "." /\ \A j \in (i + 1)..Len(text) : text[j] # "."
    ELSE 0

\* the text after the last dot
AfterLastDot(text) == SubSeq(text, LastDot(text) + 1, Len(text))

\* the image types and the extensions that stand for them
TypeOfExtension ==
    { << << "j","p","g" >>, "image/jpeg" >>, << << "j","p","e","g" >>, "image/jpeg" >>,
      << << "p","n","g" >>, "image/png" >>, << << "g","i","f" >>, "image/gif" >>,
      << << "w","e","b","p" >>, "image/webp" >>, << << "s","v","g" >>, "image/svg+xml" >> }

\* the type of an extension whatever its case, image/png when it has none
TypeIgnoringCase(ext) ==
    IF \E p \in TypeOfExtension : ToLowerCase(ext) = p[1]
    THEN (CHOOSE p \in TypeOfExtension : ToLowerCase(ext) = p[1])[2]
    ELSE "image/png"

----------------------------------------------------------------------------
(* The payload of the File and FindFile queries *)

\* longest contentId given to buildFileQueryData alone
MaxIdLen == 257

\* Buffer.from(text, 'utf8') for one character: "o" is one byte, "\u00e9"
\* (written "e'") is two
Utf8Encode(c) == IF c = "e'" THEN << 195, 169 >> ELSE << 111 >>

RECURSIVE BufferFromUtf8(_)
\* Buffer.from(text, 'utf8')
BufferFromUtf8(text) ==
    IF Len(text) = 0 THEN << >>
    ELSE IF Len(text) = 1 THEN Utf8Encode(text[1])
    ELSE LET half == Len(text) \div 2
         IN  BufferFromUtf8(SubSeq(text, 1, half))
                 \o BufferFromUtf8(SubSeq(text, half + 1, Len(text)))

RECURSIVE NumberToHex(_)
\* n.toString(16)
NumberToHex(n) ==
    IF n < 16 THEN << HexDigits[n + 1] >>
    ELSE NumberToHex(n \div 16) \o << HexDigits[(n % 16) + 1] >>

\* text.padStart(2, '0')
PadStart2(text) == IF Len(text) >= 2 THEN text ELSE Rep(<< "0" >>, 2 - Len(text)) \o text

\* `0a${ulidBytes.length.toString(16).padStart(2, '0')}${ulidBytes.toString('hex')}`
buildFileQueryData(ulid) ==
    LET ulidBytes == BufferFromUtf8(ulid)
    IN  << "0","a" >> \o PadStart2(NumberToHex(Len(ulidBytes))) \o ToHex(ulidBytes)

\* contentIds of every length up to the bound, with and without a character
\* of two bytes
QueryInputs ==
    { Rep(<< "o" >>, n) : n \in 0..MaxIdLen }
    \cup { << "e'" >> \o Rep(<< "o" >>, n) : n \in 0..(MaxIdLen - 1) }

QueryInit ==
    /\ pc = "build"
    /\ request = NoParam
    /\ Idle
    /\ input \in QueryInputs
    /\ output = << >>

QueryReturns ==
    /\ pc = "build"
    /\ output' = buildFileQueryData(input)
    /\ pc' = "built"
    /\ UNCHANGED << input, request, parts, metadata, findResult, cid, cidSource, hostIdx,
                    attempts, encryptedData, decryptedData, thrown, httpResponse,
                    rpcCalls, requests, replies >>

QueryNext == QueryReturns

QuerySpec == QueryInit /\ [][QueryNext]_vars

\* the bytes a text of hex digits stands for
BytesOfHex(text) ==
    [i \in 1..(Len(text) \div 2) |-> 16 * HexValue(text[2 * i - 1]) + HexValue(text[2 * i])]

\* C21: the payload is a tag byte 0x0a, one length byte in 0..255, and
\* exactly that many bytes, the UTF-8 bytes of the contentId; it is a whole
\* number of bytes, length byte + 2 of them.
C21_LengthPrefixedPayload ==
    pc = "built" =>
        /\ Len(output) % 2 = 0
        /\ LET bytes == BytesOfHex(output)
           IN  /\ Len(bytes) >= 2
               /\ bytes[1] = 10
               /\ bytes[2] \in 0..255
               /\ Len(bytes) = bytes[2] + 2
               /\ SubSeq(bytes, 3, Len(bytes)) = BufferFromUtf8(input)

----------------------------------------------------------------------------
(* What the handler logs of the share URL and of the key *)

\* longest owner segment and longest key of the share URLs that are logged
MaxOwnerLen == 60

MaxLogKeyLen == 10

\* vaultUrl.substring(0, 100) and key.substring(0, 8)
UrlLogLen == 100

KeyLogLen == 8

\* text.substring(0, n)
Substring0(text, n) == SubSeq(text, 1, IF Len(text) < n THEN Len(text) ELSE n)

\* the text of a share URL of the vault host
UrlText(url) == << "h","t","t","p","s",":","/","/" >> \o VaultHostText \o url.path \o url.query

\* the lines that carry part of the URL or of the key, in a resolution that
\* reaches decryptFileData: route.ts 28 and jackalVault.ts 409
LogLines(url) ==
    LET p       == parseVaultUrl(url)
        urlLine == Substring0(UrlText(url), UrlLogLen) \o << ".",".","." >>
        keyLine == << "K","e","y"," ","p","r","e","f","i","x",":"," " >>
                   \o Substring0(p.key, KeyLogLen) \o << ".",".","." >>
    IN  IF p.ok THEN << urlLine, keyLine >> ELSE << urlLine >>

\* share URLs with owners and keys of every length up to the bounds; the
\* key is made of a character that stands nowhere else in the URL
LogInputs ==
    { ShareUrl(TRUE, TRUE, VaultHost, SharePath(Rep(<< "o" >>, n), << "I","D" >>),
               KeyQuery(Rep(<< "Z" >>, m))) :
        n \in 0..MaxOwnerLen, m \in 1..MaxLogKeyLen }

LogInit ==
    /\ pc = "log"
    /\ request = NoParam
    /\ Idle
    /\ input \in LogInputs
    /\ output = << >>

LogReturns ==
    /\ pc = "log"
    /\ output' = LogLines(input)
    /\ pc' = "logged"
    /\ UNCHANGED << input, request, parts, metadata, findResult, cid, cidSource, hostIdx,
                    attempts, encryptedData, decryptedData, thrown, httpResponse,
                    rpcCalls, requests, replies >>

LogNext == LogReturns

LogSpec == LogInit /\ [][LogNext]_vars

\* C22: no line logged for a share URL holds the whole key.
C22_KeyNeverLoggedInFull ==
    pc = "logged" =>
        \A i \in 1..Len(output) :
            ~IncludesText(output[i], SearchParamsGet(input.query, << "k" >>).value)

----------------------------------------------------------------------------
(* Two calls of fetchEncryptedChunks at once. Node runs one continuation at  *)
(* a time, so the two calls interleave at their awaits. `attempts` is a      *)
(* const declared in the body of the function (line 307): every call has     *)
(* its own array. In this specification pc, cid, hostIdx, attempts and       *)
(* thrown hold one value per call, and requests holds for each call the      *)
(* GETs it issued, in order.                                                 *)

Calls == {1, 2}

\* the CID each call resolved
CallCid == << Hex_aa, Sha256Hex(<< "I","D","9" >>) >>

\* a faulty variant of OwnLog: one array serves every call
SharedLog(logs, self, entry) == [c \in DOMAIN logs |-> Push(logs[c], entry)]

\* attempts.push(entry) in the call self
OwnLog(logs, self, entry) == [logs EXCEPT ![self] = Push(@, entry)]

CallUrl(self) == DownloadUrl(Providers[hostIdx[self]], cid[self])

CallUnchanged ==
    UNCHANGED << input, output, request, parts, metadata, findResult, cidSource,
                 encryptedData, decryptedData, httpResponse, rpcCalls, replies >>

PairInit ==
    /\ pc = [c \in Calls |-> "start"]
    /\ cid = [c \in Calls |-> CallCid[c]]
    /\ hostIdx = [c \in Calls |-> 0]
    /\ attempts = [c \in Calls |-> << >>]
    /\ thrown = [c \in Calls |-> << >>]
    /\ requests = [c \in Calls |-> << >>]
    /\ request = NoParam
    /\ parts = NoParts
    /\ metadata = NoMetadata
    /\ findResult = Undefined
    /\ cidSource = ""
    /\ encryptedData = << >>
    /\ decryptedData = << >>
    /\ httpResponse = NoResponse
    /\ rpcCalls = << >>
    /\ replies = << >>
    /\ NoCall

\* the GET to the next provider is issued, or, past the last one, lines
\* 384-391 throw
CallNextProvider(self, logs) ==
    /\ attempts' = logs
    /\ IF hostIdx[self] < NumProviders
       THEN /\ hostIdx' = [hostIdx EXCEPT ![self] = @ + 1]
            /\ requests' = [requests EXCEPT
                    ![self] = Append(@, DownloadUrl(Providers[hostIdx[self] + 1], cid[self]))]
            /\ pc' = [pc EXCEPT ![self] = "download"]
            /\ UNCHANGED thrown
       ELSE /\ thrown' = [thrown EXCEPT ![self] = ExhaustedError(logs[self])]
            /\ pc' = [pc EXCEPT ![self] = "threw"]
            /\ UNCHANGED << hostIdx, requests >>

\* lines 307-315: the array is created and the primary host is requested
CallStarts(self) ==
    /\ pc[self] = "start"
    /\ CallNextProvider(self, attempts)
    /\ UNCHANGED cid
    /\ CallUnchanged

\* lines 315-326, 357-368
CallGetOk(self) ==
    /\ pc[self] = "download"
    /\ attempts' = OwnLog(attempts, self, DownloadAttempt(CallUrl(self), {200}, << >>))
    /\ pc' = [pc EXCEPT ![self] = "arrayBuffer"]
    /\ UNCHANGED << cid, hostIdx, thrown, requests >>
    /\ CallUnchanged

\* lines 326-329, 368-371
CallArrayBufferReturns(self) ==
    /\ pc[self] = "arrayBuffer"
    /\ pc' = [pc EXCEPT ![self] = "returned"]
    /\ UNCHANGED << cid, hostIdx, attempts, thrown, requests >>
    /\ CallUnchanged

\* lines 315-322 and 330-331, 357-364 and 372-373
CallGetNotOk(self) ==
    /\ pc[self] = "download"
    /\ attempts' = OwnLog(attempts, self, DownloadAttempt(CallUrl(self), {404}, << >>))
    /\ pc' = [pc EXCEPT ![self] = "text"]
    /\ UNCHANGED << cid, hostIdx, thrown, requests >>
    /\ CallUnchanged

\* lines 331-334, 373-376
CallTextReturns(self) ==
    /\ pc[self] = "text"
    /\ CallNextProvider(self,
            [attempts EXCEPT ![self] = SetLastError(@, StatusError(404, ""))])
    /\ UNCHANGED cid
    /\ CallUnchanged

\* lines 335-339, 377-381
CallGetRejects(self) ==
    /\ pc[self] = "download"
    /\ CallNextProvider(self,
            OwnLog(attempts, self, DownloadAttempt(CallUrl(self), {}, << Lit("fetch failed") >>)))
    /\ UNCHANGED cid
    /\ CallUnchanged

PairNext ==
    \E self \in Calls :
        \/ CallStarts(self)
        \/ CallGetOk(self)
        \/ CallArrayBufferReturns(self)
        \/ CallGetNotOk(self)
        \/ CallTextReturns(self)
        \/ CallGetRejects(self)

PairSpec == PairInit /\ [][PairNext]_vars

\* the GETs a call issued, in order
RequestsOf(c) == requests[c]

\* the log of a call holds its own requests only, entry i for its request i
OwnAttemptsOnly ==
    \A c \in Calls :
        /\ Len(attempts[c]) <= Len(RequestsOf(c))
        /\ \A i \in 1..Len(attempts[c]) : attempts[c][i].url = RequestsOf(c)[i]
        /\ pc[c] = "threw" =>
              /\ thrown[c] = ExhaustedError(attempts[c])
              /\ Len(attempts[c]) = NumProviders

\* a step that is not a step of call c leaves what c owns as it was
OthersUntouched ==
    \A c \in Calls :
        pc'[c] = pc[c] /\ hostIdx'[c] = hostIdx[c] =>
            attempts'[c] = attempts[c] /\ thrown'[c] = thrown[c]

----------------------------------------------------------------------------
(* testStorageDownload of the analyzer *)

\* find-mainnet-endpoints.js 313-318
TestHosts ==
    << "jkstorage4.squirrellogic.com",
       "pod-04.jackalstorage.online",
       "pod-01.jackalstorage.online",
       "m4.jkldrive.com" >>

\* body.length > 200 ? body.substring(0, 200) + '...' : body
SnippetLen == 200

Snippet(body) ==
    IF Len(body) > SnippetLen THEN SubSeq(body, 1, SnippetLen) \o << ".",".","." >> ELSE body

\* what testStorageDownload returns: error is "" when the field is absent
TestResult(status, body, error) == [status |-> status, body |-> body, error |-> error]

TestCids == { Hex_aa, Sha256Hex(<< "I","D","1","2","3" >>), Sha256Hex(<< "I","D","9" >>), << "x" >> }

TestStatuses == {200, 201, 301, 404, 500, 503}

TestBodies == { << >>, << "x" >>, Rep(<< "x" >>, SnippetLen), Rep(<< "x" >>, SnippetLen + 1) }

TestInit ==
    /\ pc = "test"
    /\ request = NoParam
    /\ Idle
    /\ input \in TestCids
    /\ output = << >>

TestUnchanged ==
    UNCHANGED << input, request, parts, metadata, findResult, cid, cidSource, attempts,
                 encryptedData, decryptedData, thrown, httpResponse, rpcCalls >>

\* lines 320-326: the loop is entered and the first host is requested
TestStarts ==
    /\ pc = "test"
    /\ hostIdx' = 1
    /\ requests' = Append(requests, DownloadUrl(TestHosts[1], input))
    /\ pc' = "fetch"
    /\ UNCHANGED << output, replies >>
    /\ TestUnchanged

\* line 325: fetch resolves, response.text() is awaited
TestFetchResolves ==
    /\ pc = "fetch"
    /\ \E status \in TestStatuses : replies' = Append(replies, Reply("answer", status, << >>, ""))
    /\ pc' = "text"
    /\ UNCHANGED << output, hostIdx, requests >>
    /\ TestUnchanged

\* lines 330-341: the body arrives; the function returns for a 2xx status
\* (line 337) and for every other status (line 340)
TestTextReturns ==
    /\ pc = "text"
    /\ \E body \in TestBodies : output' = TestResult(Last(replies).status, Snippet(body), "")
    /\ pc' = "returned"
    /\ UNCHANGED << hostIdx, requests, replies >>
    /\ TestUnchanged

\* lines 342-346: fetch or response.text() rejects; the catch returns
TestRejects ==
    /\ pc \in {"fetch", "text"}
    /\ output' = TestResult(0, << >>, "fetch failed")
    /\ pc' = "returned"
    /\ UNCHANGED << hostIdx, requests, replies >>
    /\ TestUnchanged

TestNext ==
    \/ TestStarts
    \/ TestFetchResolves
    \/ TestTextReturns
    \/ TestRejects

TestSpec == TestInit /\ [][TestNext]_vars

\* C24: testStorageDownload contacts the four hosts in order, goes on after
\* a non-2xx answer or a throw, and reports a failure only after all four
\* were tried, as "All hosts failed".
C24_EveryHostTested ==
    /\ \A i \in 1..Len(requests) : requests[i] = DownloadUrl(TestHosts[i], input)
    /\ pc = "returned" /\ ~IsOkStatus(output.status) =>
          /\ Len(requests) = Len(TestHosts)
          /\ output.error = "All hosts failed"

----------------------------------------------------------------------------
(* The home page: handleGenerate, and where the generated link leads *)

\* longest image URL entered on the home page
MaxUrlLen == 3

UrlChars == {"a", " ", "%", "2", "0"}

\* the id the shortener answers with
ShortIds == { << "a","b","c","d","e","f" >> }

\* text.trim() is empty
TrimsToEmpty(text) == \A i \in 1..Len(text) : text[i] = " "

\* encodeURIComponent: letters and digits stay, other characters are escaped
EncodeChar(c) ==
    IF c = " " THEN << "%","2","0" >>
    ELSE IF c = "%" THEN << "%","2","5" >>
    ELSE << c >>

RECURSIVE EncodeURIComponent(_)
EncodeURIComponent(text) ==
    IF Len(text) = 0 THEN << >> ELSE EncodeChar(text[1]) \o EncodeURIComponent(Tail(text))

\* decodeURIComponent throws a URIError for a "%" without two hex digits
IsMalformedUri(text) ==
    \E i \in 1..Len(text) :
        text[i] = "%" /\ ~(i + 2 <= Len(text) /\ IsHexChar(text[i + 1]) /\ IsHexChar(text[i + 2]))

\* `${origin}/${shortId}` and `${origin}/view?u=${encodedUrl}`
ShortLink(shortId) == [kind |-> "short", text |-> shortId]

ViewLink(encodedUrl) == [kind |-> "view", text |-> encodedUrl]

\* the page a request ends at
Page(name, url, error) == [name |-> name, url |-> url, error |-> error]

NoPage == Page("", << >>, "")

\* ShortLinkPage: every shortId is redirected to the home page
ShortLinkPage(shortId) == Page("home", << >>, "short-link-expired")

\* ViewPage with the query text of u: the framework decodes the parameter,
\* the page decodes it once more
ViewPage(encodedUrl) ==
    LET imageUrl == FormDecode(encodedUrl)
    IN  IF imageUrl = << >> THEN Page("home", << >>, "")
        ELSE IF IsMalformedUri(imageUrl) THEN Page("error", << >>, "URI malformed")
        ELSE Page("view", PercentDecode(imageUrl), "")

FollowLink(link) == IF link.kind = "short" THEN ShortLinkPage(link.text) ELSE ViewPage(link.text)

LinkInit ==
    /\ pc = "home"
    /\ request = NoParam
    /\ Idle
    /\ input \in TextsUpTo(UrlChars, MaxUrlLen)
    /\ output = [link |-> ViewLink(<< >>), page |-> NoPage]

LinkUnchanged ==
    UNCHANGED << input, request, parts, metadata, findResult, cid, cidSource, hostIdx,
                 attempts, encryptedData, decryptedData, thrown, httpResponse, rpcCalls,
                 requests, replies >>

\* page.tsx 10-19: nothing is generated for a blank input; else the
\* shortener is called
HandleGenerate ==
    /\ pc = "home"
    /\ pc' = IF TrimsToEmpty(input) THEN "blank" ELSE "shorten"
    /\ UNCHANGED output
    /\ LinkUnchanged

\* page.tsx 21-23: the shortener answers 2xx with a shortUrl
ShortenOk ==
    /\ pc = "shorten"
    /\ \E shortId \in ShortIds : output' = [output EXCEPT !.link = ShortLink(shortId)]
    /\ pc' = "generated"
    /\ LinkUnchanged

\* page.tsx 24-29: the shortener answers another status
ShortenNotOk ==
    /\ pc = "shorten"
    /\ output' = [output EXCEPT !.link = ViewLink(EncodeURIComponent(input))]
    /\ pc' = "generated"
    /\ LinkUnchanged

\* page.tsx 30-36: the call throws
ShortenThrows ==
    /\ pc = "shorten"
    /\ output' = [output EXCEPT !.link = ViewLink(EncodeURIComponent(input))]
    /\ pc' = "generated"
    /\ LinkUnchanged

\* the generated link is opened
LinkFollowed ==
    /\ pc = "generated"
    /\ output' = [output EXCEPT !.page = FollowLink(output.link)]
    /\ pc' = "followed"
    /\ LinkUnchanged

LinkNext ==
    \/ HandleGenerate
    \/ ShortenOk
    \/ ShortenNotOk
    \/ ShortenThrows
    \/ LinkFollowed

LinkSpec == LinkInit /\ [][LinkNext]_vars

\* C25: the link generated for an image URL leads to the preview of that
\* URL, whether the shortener succeeds, fails or throws.
C25_LinkLeadsToPreview ==
    pc = "followed" => output.page = Page("view", input, "")

----------------------------------------------------------------------------
(* The attempt log and the CID of the download URLs *)

\* C26: the attempt log holds exactly one entry per GET that was answered,
\* whatever the answer: 2xx, non-2xx, a rejected fetch, or a 2xx whose body
\* cannot be read; entry i is about request i.
C26_OneEntryPerGet ==
    /\ Len(attempts) = Len(replies)
    /\ \A i \in 1..Len(attempts) : attempts[i].url = requests[i]

\* 0x0a, 0x40, then the 64 characters "AA...A"
B64_upper64 == << "C","k","B","B" >> \o Rep(<< "Q","U","F","B" >>, 21)

\* a member whose name is 64 hex characters
WithHexNamedKey == << [k |-> Rep(<< "b" >>, CidHexLen), v |-> JStr(Hex_aa)] >>

\* what the FindFile query may return: the values and members above, under
\* "result" or not
CidFindResults ==
    LET values  == { << >>, B64_short, B64_raw32, B64_prefixed64, B64_prefixed32, B64_upper64 }
        members == { << >>, WithKey, WithUpperKey, WithHexNamedKey }
    IN  { AbciResult(v, m) : v \in values, m \in members }
        \cup { Nested(AbciResult(v, m)) : v \in values, m \in members }

CidInit ==
    /\ pc = "find"
    /\ request = NoParam
    /\ Idle
    /\ input \in [response : CidFindResults,
                   fileId : { << "I","D","1","2","3" >>, << "I","D","9" >> }]
    /\ output = << >>

\* getFindFileInfo 231-238 and fetchEncryptedChunks 259-298
CidChosen ==
    /\ pc = "find"
    /\ LET decoded == decodeFindFileValue(input.response)
       IN  output' = IF decoded.ok
                     THEN ChooseCid(decoded, collectHexCandidates(input.response, << >>, << >>),
                                    input.fileId)
                     ELSE [cid |-> << >>, source |-> "threw"]
    /\ pc' = "chosen"
    /\ UNCHANGED << input, request, parts, metadata, findResult, cid, cidSource, hostIdx,
                    attempts, encryptedData, decryptedData, thrown, httpResponse,
                    rpcCalls, requests, replies >>

CidNext == CidChosen

CidSpec == CidInit /\ [][CidNext]_vars

\* 64 characters of [0-9a-f]
IsLowerHex64(text) ==
    Len(text) = CidHexLen /\ \A i \in 1..Len(text) : \E d \in 1..16 : HexDigits[d] = text[i]

\* C27: the CID of the download URLs is 64 lowercase hex characters,
\* whichever strategy chose it, and when object traversal chose it, it is
\* the value of the matched field, not a part of its path.
C27_CidIsLowerHexValue ==
    pc = "chosen" /\ output.source # "threw" =>
        /\ IsLowerHex64(output.cid)
        /\ output.source = "candidates" => output.cid \in StructuralIn(input.response)

----------------------------------------------------------------------------
(* The parseVaultUrl of lib/jackal-utils.ts beside the one of               *)
(* lib/jackalVault.ts: every share URL of the bounds is parsed by both.     *)

RECURSIVE FilterBoolean(_)
\* segments.filter(Boolean): the empty strings are dropped
FilterBoolean(segments) ==
    IF Len(segments) = 0 THEN << >>
    ELSE IF Head(segments) = << >> THEN FilterBoolean(Tail(segments))
    ELSE << Head(segments) >> \o FilterBoolean(Tail(segments))

\* parseVaultUrl of lib/jackal-utils.ts
parseVaultUrlUtils(vaultUrl) ==
    LET wrap(cause) ==
            [ok |-> FALSE, address |-> << >>, ulid |-> << >>, linkKey |-> << >>,
             error |-> << Lit("Failed to parse vault URL: "), Lit(cause) >>]
        segs    == FilterBoolean(Split(Pathname(vaultUrl.path), "/"))
        linkKey == SearchParamsGet(vaultUrl.query, << "k" >>)
    IN  IF ~vaultUrl.absolute THEN wrap("Invalid URL")
        ELSE IF Len(segs) < 3 \/ ~linkKey.found \/ linkKey.value = << >>
        THEN wrap("Invalid Vault URL: missing address, ulid, or k=")
        ELSE [ok |-> TRUE, address |-> segs[2], ulid |-> segs[3],
              linkKey |-> linkKey.value, error |-> << >>]

AgreeInit ==
    /\ pc = "parse"
    /\ request \in ParseInputs
    /\ Idle
    /\ NoCall

AgreeReturns ==
    /\ pc = "parse"
    /\ parts' = parseVaultUrl(request)
    /\ output' = parseVaultUrlUtils(request)
    /\ pc' = "parsed"
    /\ UNCHANGED << input, request, metadata, findResult, cid, cidSource, hostIdx, attempts,
                    encryptedData, decryptedData, thrown, httpResponse, rpcCalls,
                    requests, replies >>

AgreeNext == AgreeReturns

AgreeSpec == AgreeInit /\ [][AgreeNext]_vars

\* C28: the two parseVaultUrl accept the same URLs, and on acceptance
\* address = vaultAddress, ulid = fileId and linkKey = key.
C28_ParsersAgree ==
    pc = "parsed" =>
        /\ output.ok = parts.ok
        /\ output.ok => /\ output.address = parts.vaultAddress
                        /\ output.ulid = parts.fileId
                        /\ output.linkKey = parts.key

----------------------------------------------------------------------------
(* GET /raw up to the first await of the pipeline: which share URLs pass    *)
(* the handler's test of the domain and have a query sent for them.         *)

\* isJackalVaultUrl of lib/jackal-utils.ts
isJackalVaultUrl(url) ==
    /\ url.absolute
    /\ url.host = VaultHost
    /\ LET pathname == Pathname(url.path)
       IN  Len(pathname) >= 3 /\ SubSeq(pathname, 1, 3) = << "/","v","/" >>

\* /vault.jackalprotocol.com/v/o/o
Path_hostInPath == << "/" >> \o VaultHostText \o << "/","v","/","o","/","o" >>

\* ?k=KEY1&from=vault.jackalprotocol.com
Query_hostInQuery == Query_key \o << "&","f","r","o","m","=" >> \o VaultHostText

GateRequests ==
    { NoParam, ShareUrl(FALSE, FALSE, "", << >>, << >>),
      ShareUrl(TRUE, FALSE, "", Path_share, Query_key) }
    \cup { ShareUrl(TRUE, TRUE, h, p, q) :
             h \in { VaultHost, "example.com" },
             p \in ParsePaths \cup { Path_hostInPath },
             q \in { << >>, Query_key, Query_hostInQuery } }

GateInit ==
    /\ pc = "request"
    /\ request \in GateRequests
    /\ Idle
    /\ NoCall

GateNext == HandleRequest

GateSpec == GateInit /\ [][GateNext]_vars

\* C29: the pipeline is called, and a query sent, only for a URL that
\* isJackalVaultUrl accepts; a missing u or any other URL is answered 400
\* and nothing is sent.
C29_PipelineOnlyForVaultUrls ==
    pc # "request" /\ (request.absent \/ ~isJackalVaultUrl(request)) =>
        /\ httpResponse.status = 400
        /\ rpcCalls = << >>
        /\ thrown = << >>

----------------------------------------------------------------------------
(* The short-link store of lib/shortener.ts and POST /api/shorten. The      *)
(* store is kept in output, as the entries of the Map in insertion order;   *)
(* input is the list of the createShortLink calls made so far, each with    *)
(* the ids generateShortId drew for it and the id it returned.              *)

MaxCalls == 3

MaxDraws == 2

ShortIdLen == 6

\* what generateShortId may return
GeneratedIds == { Rep(<< c >>, ShortIdLen) : c \in {"a", "b", "c"} }

\* the URLs submitted
ShortUrls == { << >>, << "u" >>, << "w" >> }

\* urlStore.has(shortId)
StoreHas(store, shortId) == \E i \in 1..Len(store) : store[i].shortId = shortId

\* urlStore.set(shortId, url): the entry of shortId is replaced where it
\* stands, a new id is added at the end
StoreSet(store, shortId, url) ==
    IF StoreHas(store, shortId)
    THEN [i \in 1..Len(store) |->
            IF store[i].shortId = shortId THEN [shortId |-> shortId, url |-> url]
            ELSE store[i]]
    ELSE Append(store, [shortId |-> shortId, url |-> url])

\* a faulty variant of createShortLink: the first id drawn is used, stored or not
createShortLinkFirstDraw(store, originalUrl, draws) ==
    LET known == { i \in 1..Len(store) : store[i].url = originalUrl }
    IN  IF known # {}
        THEN [shortId |-> store[CHOOSE i \in known : \A j \in known : i <= j].shortId,
              store |-> store]
        ELSE [shortId |-> draws[1], store |-> StoreSet(store, draws[1], originalUrl)]

\* createShortLink; draws are the ids generateShortId returns, in order
createShortLink(store, originalUrl, draws) ==
    LET known == { i \in 1..Len(store) : store[i].url = originalUrl }
        free  == { k \in 1..Len(draws) : ~StoreHas(store, draws[k]) }
    IN  IF known # {}
        THEN [shortId |-> store[CHOOSE i \in known : \A j \in known : i <= j].shortId,
              store |-> store]
        ELSE LET k == CHOOSE m \in free : \A n \in free : m <= n
             IN  [shortId |-> draws[k], store |-> StoreSet(store, draws[k], originalUrl)]

\* resolveShortLink: urlStore.get(shortId) || null
resolveShortLink(store, shortId) ==
    LET hits == { i \in 1..Len(store) : store[i].shortId = shortId }
    IN  IF hits = {} THEN [null |-> TRUE, url |-> << >>]
        ELSE LET url == store[CHOOSE i \in hits : TRUE].url
             IN  IF url = << >> THEN [null |-> TRUE, url |-> << >>]
                 ELSE [null |-> FALSE, url |-> url]

\* the ids generateShortId may draw during one call: the loop of lines 27-29
\* goes on while the id drawn is stored
DrawsFor(store) ==
    { d \in UNION { [1..n -> GeneratedIds] : n \in 1..MaxDraws } :
        /\ ~StoreHas(store, d[Len(d)])
        /\ \A k \in 1..(Len(d) - 1) : StoreHas(store, d[k]) }

ShortInit ==
    /\ pc = "serving"
    /\ request = NoParam
    /\ Idle
    /\ input = << >>
    /\ output = << >>

ShortUnchanged ==
    UNCHANGED << pc, request, parts, metadata, findResult, cid, cidSource, hostIdx, attempts,
                 encryptedData, decryptedData, thrown, rpcCalls, requests, replies >>

\* the call of createShortLink with url, recorded in the list of calls
CallCreate(url) ==
    \E draws \in IF \E i \in 1..Len(output) : output[i].url = url
                  THEN { << >> } ELSE DrawsFor(output) :
        LET r == createShortLink(output, url, draws)
        IN  /\ output' = r.store
            /\ input' = Append(input, [url |-> url, draws |-> draws, shortId |-> r.shortId])

\* createShortLink called with any string
CreateShortLinkCalled ==
    /\ Len(input) < MaxCalls
    /\ \E url \in ShortUrls : CallCreate(url)
    /\ UNCHANGED httpResponse
    /\ ShortUnchanged

\* POST /api/shorten with a body { url }
PostShorten ==
    /\ Len(input) < MaxCalls
    /\ \E url \in ShortUrls :
          IF url = << >>
          THEN /\ httpResponse' = [status |-> 400, contentType |-> "application/json",
                                   text |-> "URL is required", body |-> << >>]
               /\ UNCHANGED << input, output >>
          ELSE /\ CallCreate(url)
               /\ httpResponse' = [status |-> 200, contentType |-> "application/json",
                                   text |-> "shortId", body |-> << >>]
    /\ ShortUnchanged

ShortNext == CreateShortLinkCalled \/ PostShorten

ShortSpec == ShortInit /\ [][ShortNext]_vars

\* no two entries of the store share an id or a URL
StoreOneToOne ==
    \A i, j \in 1..Len(output) :
        i # j => output[i].shortId # output[j].shortId /\ output[i].url # output[j].url

\* every call's URL stands in the store once, under the id the call returned
EveryCallStored ==
    \A c \in 1..Len(input) :
        /\ \E i \in 1..Len(output) :
              output[i] = [shortId |-> input[c].shortId, url |-> input[c].url]
        /\ input[c].url # << >> =>
              resolveShortLink(output, input[c].shortId) = [null |-> FALSE, url |-> input[c].url]

\* a step keeps every entry where it stands, and adds none for a URL stored
StoreOnlyGrows ==
    /\ Len(output') >= Len(output)
    /\ SubSeq(output', 1, Len(output)) = output
    /\ Len(input') > Len(input) /\ (\E i \in 1..Len(output) : output[i].url = input'[Len(input')].url)
         => output' = output

\* C30: the store is one-to-one and only grows: every URL submitted has one
\* shortId, returned again by a repeated call that adds no entry; distinct
\* URLs have distinct shortIds; no entry is overwritten or removed; and
\* resolveShortLink gives back every non-empty URL from its shortId.
C30_StoreOneToOneGrowing ==
    [](StoreOneToOne /\ EveryCallStored) /\ [][StoreOnlyGrows]_vars

\* a URL was submitted twice, another URL was stored after a drawn id was
\* found in the store, and both resolve
C30_Witness ==
    /\ Len(output) = 2
    /\ \E c, d \in 1..Len(input) : c < d /\ input[c].url = input[d].url /\ input[c].url # << >>
    /\ \E c \in 1..Len(input) : Len(input[c].draws) > 1 /\ input[c].shortId = input[c].draws[2]
    /\ \A i \in 1..Len(output) :
          resolveShortLink(output, output[i].shortId) = [null |-> FALSE, url |-> output[i].url]

====
